---- MODULE Spec2Model ----
(***************************************************************************)
(* HexTask: the task board (src/app/page.tsx, Home), its tree builder and  *)
(* optimistic update controller, and the kanban drag/drop status adapter   *)
(* (src/components/DraggableKanbanBoard.tsx).                              *)
(*                                                                         *)
(* The backend is a table of task rows.  The client keeps a forest built   *)
(* from a fetch of those rows and patches it speculatively.  A request the *)
(* client has sent is an entry of ops until its continuation has run; a    *)
(* request's backend effect and the continuation the client runs when the  *)
(* response arrives are separate steps wherever another request can tell   *)
(* the two apart.                                                          *)
(*                                                                         *)
(* Timestamps (created_at, updated_at), description and position are not   *)
(* part of a row here: no handler modelled below reads them.  A title is a *)
(* sequence of characters.                                                 *)
(***************************************************************************)
EXTENDS Integers, Sequences, FiniteSets, TLC

VARIABLES
  db,          \* backend table tasks, in the order of the tasks query
  dbNext,      \* number of ids the backend has generated
  tasks,       \* Home: tasks, the local forest (sequence of root nodes)
  users,       \* Home: users
  error,       \* Home: error (banner text or NULL)
  loading,     \* Home: loading
  authChecked, \* Home: authChecked
  route,       \* router location
  modalTask,   \* Home: modalTask
  now,         \* last value read from Date.now()
  ops,         \* the requests in flight, in the order of sending
  writes,      \* number of writes the backend has applied
  issued,      \* number of mutations and sign-in events so far
  fetchFailed, \* a query of fetchData has failed
  last,        \* the step that ran last, with its inputs
  dragId,      \* DndContext: id of the draggable being dragged, or NULL
  activeTask,  \* DraggableKanbanBoard: activeTask
  overId,      \* DraggableKanbanBoard: overId
  newTaskStatus,  \* Home: newTaskStatus
  docTable,       \* backend table documents, in the order of the query
  documents,      \* DocumentsPage: documents
  documentGroups, \* DocumentsPage: documentGroups
  sortedFormats,  \* the formats list a dropdown of DocumentsPage shows
  docDelete,      \* DocumentsPage: the run of confirmDelete, or Nothing
  docsPending,    \* DocumentsPage: fetchData calls of confirmDelete in flight
  docsError,      \* DocumentsPage: error
  filterStatus,   \* Home: filterStatus
  filterAssignee, \* Home: filterAssignee
  searchQuery,    \* Home: searchQuery
  viewMode,       \* Home: viewMode
  sortField,      \* ListView: sortField
  sortDirection,  \* ListView: sortDirection
  currentPage,    \* ListView: currentPage
  pageSize,       \* ListView: pageSize
  listLen         \* ListView: tasks.length, the tasks passed in

vars == <<db, dbNext, tasks, users, error, loading, authChecked, route,
          modalTask, now, ops, writes, issued, fetchFailed, last, dragId,
          activeTask, overId, newTaskStatus, docTable, documents,
          documentGroups, sortedFormats, docDelete, docsPending, docsError,
          filterStatus, filterAssignee, searchQuery, viewMode,
          sortField, sortDirection, currentPage, pageSize, listLen>>

\* the state of the mounted board component and its DndContext
drag == <<dragId, activeTask, overId>>

\* the state of DocumentsPage and its backend table
docsPage == <<docTable, documents, documentGroups, sortedFormats,
              docDelete, docsPending, docsError>>

\* the filter bar and the view switch of Home
homeView == <<filterStatus, filterAssignee, searchQuery, viewMode>>

\* the state of the mounted ListView and the length of its tasks prop
listView == <<sortField, sortDirection, currentPage, pageSize, listLen>>

NULL == "null"

(***************************************************************************)
(* Bounds                                                                  *)
(***************************************************************************)
\* user mutations (quick updates, subtask creations) per behaviour
MaxOps == 2
\* distinct values Date.now() can return in a behaviour
MaxNow == 2
\* rows of a fetch given to the tree builder
MaxRows == 3
\* rows of the documents table
MaxDocs == 3
\* tasks the list view can be given
MaxList == 61

(***************************************************************************)
(* Data                                                                    *)
(***************************************************************************)
\* Task['status'], in the key order of statusGroups
StatusValues == <<"backlog", "todo", "in_progress", "review", "done">>

StatusSet == {StatusValues[i] : i \in 1..Len(StatusValues)}

\* the rows of table users (seeded, never updated)
UsersTable == <<"u1", "u2">>

\* the titles of the rows
TitleOf(id) ==
  CASE id = "t1" -> <<"A", "b">>
    [] id = "t2" -> <<"b", "a">>
    [] id = "t3" -> <<"B">>
    [] OTHER -> <<"a">>

\* the title typed into the form of a new task
NewTitle == <<"a", "B">>

\* a row of table tasks
Row(id, parent, status) ==
  [id |-> id, parent_id |-> parent, status |-> status, priority |-> "medium",
   assignee_id |-> NULL, due_date |-> NULL, completed_at |-> NULL,
   title |-> TitleOf(id)]

\* `temp-${Date.now()}`
TempId(t) == <<"temp-1", "temp-2", "temp-3", "temp-4">>[t]

TempIds == {TempId(t) : t \in 1..4}

\* gen_random_uuid(), the k-th id the backend generates
NewId(k) == <<"n1", "n2", "n3", "n4", "n5">>[k]

\* absent value of modalTask / activeTask
Nothing == [kind |-> "none"]

Some(t) == [kind |-> "task", task |-> t]

\* { ...task, ...updateData }
Merge(task, upd) ==
  [f \in (DOMAIN task) \cup (DOMAIN upd) |->
     IF f \in DOMAIN upd THEN upd[f] ELSE task[f]]

SeqToSet(s) == {s[i] : i \in 1..Len(s)}

(***************************************************************************)
(* Tree builder (fetchData)                                                *)
(***************************************************************************)
\* task.parent_id && taskMap.has(task.parent_id)
ParentResolves(rows, t) ==
  /\ t.parent_id # NULL
  /\ \E i \in 1..Len(rows) : rows[i].id = t.parent_id

\* RootRows that takes only the rows without parent_id
RootRowsNullOnly(rows) == SelectSeq(rows, LAMBDA t : t.parent_id = NULL)

\* the rows pushed to rootTasks, in taskMap order
RootRows(rows) == SelectSeq(rows, LAMBDA t : ~ParentResolves(rows, t))

\* the rows pushed to the subtasks list of the task with id pid
ChildRows(rows, pid) ==
  SelectSeq(rows, LAMBDA t : ParentResolves(rows, t) /\ t.parent_id = pid)

\* TreeNode with one level of nesting only
TreeNodeOneLevel(rows, t) ==
  LET ch == ChildRows(rows, t.id)
  IN  Merge(t, [subtasks |->
                  [i \in 1..Len(ch) |-> Merge(ch[i], [subtasks |-> <<>>])]])

\* the object stored in taskMap for row t, with the subtasks pushed to it
RECURSIVE TreeNode(_, _)
TreeNode(rows, t) ==
  LET ch == ChildRows(rows, t.id)
  IN  Merge(t, [subtasks |-> [i \in 1..Len(ch) |-> TreeNode(rows, ch[i])]])

\* BuildTree that lists the roots last row first
BuildTreeReversed(rows) ==
  LET roots == RootRows(rows)
  IN  [i \in 1..Len(roots) |-> TreeNode(rows, roots[Len(roots) + 1 - i])]

\* rootTasks
BuildTree(rows) ==
  LET roots == RootRows(rows)
  IN  [i \in 1..Len(roots) |-> TreeNode(rows, roots[i])]

(***************************************************************************)
(* Local patches of the forest                                             *)
(***************************************************************************)
\* PatchQuick that searches the roots only
PatchQuickRootsOnly(ts, upd) ==
  [i \in 1..Len(ts) |->
     IF ts[i].id = upd.id THEN Merge(ts[i], upd) ELSE ts[i]]

\* PatchQuick that drops the subtasks of the root it edits
PatchQuickDropsSubtasks(ts, upd) ==
  [i \in 1..Len(ts) |->
     IF ts[i].id = upd.id
       THEN Merge(Merge(ts[i], upd), [subtasks |-> <<>>])
       ELSE [ts[i] EXCEPT !.subtasks =
               [j \in 1..Len(@) |->
                  IF @[j].id = upd.id THEN Merge(@[j], upd) ELSE @[j]]]]

\* handleUpdateTask: the updater passed to setTasks
PatchQuick(ts, upd) ==
  [i \in 1..Len(ts) |->
     IF ts[i].id = upd.id
       THEN Merge(ts[i], upd)
       ELSE [ts[i] EXCEPT !.subtasks =
               [j \in 1..Len(@) |->
                  IF @[j].id = upd.id THEN Merge(@[j], upd) ELSE @[j]]]]

\* handleSaveTask: optimisticSubtask
OptimisticSubtask(tempId, insertData) ==
  [id |-> tempId, parent_id |-> insertData.parent_id,
   status |-> insertData.status, priority |-> insertData.priority,
   assignee_id |-> NULL, due_date |-> NULL, completed_at |-> NULL,
   title |-> NewTitle, subtasks |-> <<>>]

\* handleSaveTask: the updater that appends the placeholder under its parent
PatchAddSubtask(ts, parentId, sub) ==
  [i \in 1..Len(ts) |->
     IF ts[i].id = parentId
       THEN [ts[i] EXCEPT !.subtasks = Append(@, sub)]
       ELSE ts[i]]

\* handleSaveTask: the updater that replaces the temp id by the real id
PatchSwapId(ts, parentId, tempId, realId) ==
  [i \in 1..Len(ts) |->
     IF ts[i].id = parentId
       THEN [ts[i] EXCEPT !.subtasks =
               [j \in 1..Len(@) |->
                  IF @[j].id = tempId THEN [@[j] EXCEPT !.id = realId]
                                      ELSE @[j]]]
       ELSE ts[i]]

\* SyncModal that leaves the modal with the task it was opened on
SyncModalNever(m, ts) == m

\* the effect that follows a change of tasks: modalTask follows the root
\* with its id
SyncModal(m, ts) ==
  IF m.kind = "task" /\ \E i \in 1..Len(ts) : ts[i].id = m.task.id
    THEN Some(ts[CHOOSE i \in 1..Len(ts) :
                    /\ ts[i].id = m.task.id
                    /\ \A k \in 1..(i - 1) : ts[k].id # m.task.id])
    ELSE m

(***************************************************************************)
(* Views of the forest                                                     *)
(***************************************************************************)
RootIds(ts) == {ts[i].id : i \in 1..Len(ts)}

SubtaskIds(ts) ==
  UNION {{ts[i].subtasks[j].id : j \in 1..Len(ts[i].subtasks)} :
           i \in 1..Len(ts)}

\* every node of a forest, at any depth
RECURSIVE NodesOf(_)
NodesOf(ts) ==
  UNION {{ts[i]} \cup NodesOf(ts[i].subtasks) : i \in 1..Len(ts)}

\* StatusGroup that puts every task into every column
StatusGroupUnsplit(ts, status) == ts

\* statusGroups: one column of the tasks given
StatusGroup(ts, status) == SelectSeq(ts, LAMBDA t : t.status = status)

\* the early return of Home: the board is rendered only then
BoardVisible == authChecked /\ ~loading /\ route = "/"

\* the cards and the banner can be clicked: the modal is a full-screen
\* overlay above them, and a pointer that drags does nothing else
CardsReachable == BoardVisible /\ modalTask.kind = "none" /\ dragId = NULL

(***************************************************************************)
(* Backend                                                                 *)
(***************************************************************************)
\* from('tasks').update(updateData).eq('id', id)
DbUpdate(rows, upd) ==
  [i \in 1..Len(rows) |->
     IF rows[i].id = upd.id THEN Merge(rows[i], upd) ELSE rows[i]]

\* from('tasks').insert([insertData]): position defaults to 0 for every
\* row, so the query order is created_at descending: newest first
DbInsert(rows, id, insertData) ==
  <<[id |-> id, parent_id |-> insertData.parent_id,
     status |-> insertData.status, priority |-> insertData.priority,
     assignee_id |-> NULL, due_date |-> NULL, completed_at |-> NULL,
     title |-> NewTitle]>>
  \o rows

\* parent_id UUID REFERENCES tasks(id)
ParentExists(rows, pid) == \E i \in 1..Len(rows) : rows[i].id = pid

\* the sequence s without its i-th element
RemoveAt(s, i) == SubSeq(s, 1, i - 1) \o SubSeq(s, i + 1, Len(s))

(***************************************************************************)
(* Requests                                                                *)
(***************************************************************************)
\* no request
NoOp == [kind |-> "none"]

\* fetchData has sent its users query; cause is the caller and by is the
\* failed request that made the caller call it
FetchOp(cause, by) ==
  [kind |-> "fetch", pc |-> "users", cause |-> cause, by |-> by,
   usersOk |-> FALSE, tasksOk |-> FALSE, snap |-> <<>>, verRead |-> 0]

\* handleUpdateTask has sent its update
UpdateOp(upd) ==
  [kind |-> "update", pc |-> "sent", upd |-> upd, pre |-> db, ver |-> writes]

\* handleSaveTask has sent its insert
InsertOp(insertData, tempId) ==
  [kind |-> "insert", pc |-> "sent", row |-> insertData, tempId |-> tempId,
   newId |-> NULL]

\* fetchData, lines 607-608: setLoading(true); setError(null).  A message
\* the caller has set in the same handler run is overwritten.
FetchDataError(callerError) == NULL

ActionsLeft == issued < MaxOps

\* the quick edits of the cards: one field each
QuickEdits(id) ==
  {[id |-> id, status |-> "done"], [id |-> id, priority |-> "high"],
   [id |-> id, assignee_id |-> "u1"], [id |-> id, due_date |-> "d1"]}

(***************************************************************************)
(* Initial state: Home as constructed, before the mount effect             *)
(***************************************************************************)
\* the rows of section 8 of the specification
ScenarioRows ==
  <<Row("t1", NULL, "todo"), Row("t2", "t1", "todo"), Row("t3", NULL, "done")>>

\* DocumentsPage as constructed, with an empty documents table
DocsInit ==
  /\ docTable = <<>>
  /\ documents = <<>>
  /\ documentGroups = <<>>
  /\ sortedFormats = <<>>
  /\ docDelete = Nothing
  /\ docsPending = 0
  /\ docsError = NULL

\* Home: the filter bar and the view switch as constructed
HomeViewInit ==
  /\ filterStatus = "all"
  /\ filterAssignee = "all"
  /\ searchQuery = <<>>
  /\ viewMode = "board"

\* ListView as constructed
ListInit ==
  /\ sortField = "created_at"
  /\ sortDirection = "desc"
  /\ currentPage = 1
  /\ pageSize = 20

ClientInit ==
  /\ dbNext = 0
  /\ writes = 0
  /\ tasks = <<>>
  /\ users = <<>>
  /\ error = NULL
  /\ loading = TRUE
  /\ authChecked = FALSE
  /\ route = "/"
  /\ modalTask = Nothing
  /\ now = 1
  /\ ops = <<>>
  /\ issued = 0
  /\ fetchFailed = FALSE
  /\ last = [act |-> "mount"]
  /\ dragId = NULL
  /\ activeTask = Nothing
  /\ overId = NULL
  /\ newTaskStatus = NULL
  /\ DocsInit
  /\ HomeViewInit
  /\ ListInit
  /\ listLen = 0

Init ==
  /\ db = ScenarioRows
  /\ ClientInit

\* the state after checkAuth and a fetchData that succeeded
Loaded(rows) ==
  /\ db = rows
  /\ dbNext = 0
  /\ writes = 0
  /\ tasks = BuildTree(rows)
  /\ users = UsersTable
  /\ error = NULL
  /\ loading = FALSE
  /\ authChecked = TRUE
  /\ route = "/"
  /\ modalTask = Nothing
  /\ now = 1
  /\ ops = <<>>
  /\ issued = 0
  /\ fetchFailed = FALSE
  /\ last = [act |-> "fetchData", cause |-> "mount", ok |-> TRUE,
             by |-> NoOp, verRead |-> 0, usersOk |-> TRUE, prevRead |-> -1]
  /\ dragId = NULL
  /\ activeTask = Nothing
  /\ overId = NULL
  /\ newTaskStatus = NULL
  /\ DocsInit
  /\ HomeViewInit
  /\ ListInit
  /\ listLen = 0

(***************************************************************************)
(* checkAuth and fetchData                                                 *)
(***************************************************************************)
\* CheckAuthNoUser that goes on to fetchData
CheckAuthNoUserFetches ==
  /\ ~authChecked /\ route = "/" /\ ops = <<>>
  /\ route' = "/login"
  /\ ops' = Append(ops, FetchOp("mount", NoOp))
  /\ last' = [act |-> "checkAuth"]
  /\ UNCHANGED <<db, dbNext, writes, tasks, users, error, loading, authChecked,
                 modalTask, now, issued, fetchFailed, drag>>
  /\ UNCHANGED <<newTaskStatus, docsPage, homeView, listView>>

\* checkAuth, getCurrentUser returned null
CheckAuthNoUser ==
  /\ ~authChecked /\ route = "/" /\ ops = <<>>
  /\ route' = "/login"
  /\ last' = [act |-> "checkAuth"]
  /\ UNCHANGED <<db, dbNext, writes, tasks, users, error, loading, authChecked,
                 modalTask, now, ops, issued, fetchFailed, drag>>
  /\ UNCHANGED <<newTaskStatus, docsPage, homeView, listView>>

\* checkAuth, getCurrentUser returned a user: fetchData starts
CheckAuthUser ==
  /\ ~authChecked /\ route = "/" /\ ops = <<>>
  /\ authChecked' = TRUE
  /\ loading' = TRUE
  /\ error' = FetchDataError(error)
  /\ ops' = Append(ops, FetchOp("mount", NoOp))
  /\ last' = [act |-> "checkAuth"]
  /\ UNCHANGED <<db, dbNext, writes, tasks, users, route, modalTask, now,
                 issued, fetchFailed, drag>>
  /\ UNCHANGED <<newTaskStatus, docsPage, homeView, listView>>

\* fetchData: the users query answers; on an error the banner is set at once
FetchUsersRespond(i, ok) ==
  /\ ops[i].kind = "fetch" /\ ops[i].pc = "users"
  /\ ops' = [ops EXCEPT ![i].pc = "tasks", ![i].usersOk = ok]
  /\ error' = IF ok THEN error ELSE "Failed to load users"
  /\ fetchFailed' = (fetchFailed \/ ~ok)
  /\ last' = [act |-> "fetchData users"]
  /\ UNCHANGED <<db, dbNext, writes, tasks, users, loading, authChecked,
                 route, modalTask, now, issued, drag>>
  /\ UNCHANGED <<newTaskStatus, docsPage, homeView, listView>>

\* the backend runs the tasks query of fetchData
FetchTasksExec(i, ok) ==
  /\ ops[i].kind = "fetch" /\ ops[i].pc = "tasks"
  /\ ops' = [ops EXCEPT ![i].pc = "read", ![i].tasksOk = ok,
                        ![i].snap = IF ok THEN db ELSE <<>>,
                        ![i].verRead = writes]
  /\ fetchFailed' = (fetchFailed \/ ~ok)
  /\ last' = [act |-> "backend: tasks query"]
  /\ UNCHANGED <<db, dbNext, writes, tasks, users, error, loading,
                 authChecked, route, modalTask, now, issued, drag>>
  /\ UNCHANGED <<newTaskStatus, docsPage, homeView, listView>>

\* FetchedTasks that fills an empty board only
FetchedTasksIfEmpty(prev, ok, rows) ==
  IF ok /\ prev = <<>> THEN BuildTree(rows) ELSE prev

\* what setTasks receives after the tasks query: lines 636-661
FetchedTasks(prev, ok, rows) == IF ok THEN BuildTree(rows) ELSE prev

\* FetchedUsers that clears the list when the users query has failed
FetchedUsersOrNone(prev, ok) == IF ok THEN UsersTable ELSE <<>>

\* what the users list is after the users query: lines 632-634
FetchedUsers(prev, ok) == IF ok THEN UsersTable ELSE prev

\* FetchResolve that returns before setLoading(false) when the tasks query
\* failed
FetchResolveReturnsOnError(i) ==
  /\ ops[i].kind = "fetch" /\ ops[i].pc = "read"
  /\ ops' = RemoveAt(ops, i)
  /\ error' = IF ops[i].tasksOk THEN error ELSE "Failed to load tasks"
  /\ users' = FetchedUsers(users, ops[i].usersOk)
  /\ tasks' = FetchedTasks(tasks, ops[i].tasksOk, ops[i].snap)
  /\ loading' = IF ops[i].tasksOk THEN FALSE ELSE loading
  /\ modalTask' = SyncModal(modalTask, tasks')
  /\ last' = [act |-> "fetchData", cause |-> ops[i].cause,
              ok |-> ops[i].tasksOk, by |-> ops[i].by,
              verRead |-> ops[i].verRead, usersOk |-> ops[i].usersOk,
              prevRead |-> IF last.act = "fetchData" /\ last.ok
                             THEN last.verRead ELSE -1]
  /\ UNCHANGED <<db, dbNext, writes, authChecked, route, now, issued,
                 fetchFailed, drag>>
  /\ UNCHANGED <<newTaskStatus, docsPage, homeView, listView>>

\* fetchData after the tasks query: lines 627-663
FetchResolve(i) ==
  /\ ops[i].kind = "fetch" /\ ops[i].pc = "read"
  /\ ops' = RemoveAt(ops, i)
  /\ error' = IF ops[i].tasksOk THEN error ELSE "Failed to load tasks"
  /\ users' = FetchedUsers(users, ops[i].usersOk)
  /\ tasks' = FetchedTasks(tasks, ops[i].tasksOk, ops[i].snap)
  /\ loading' = FALSE
  /\ modalTask' = SyncModal(modalTask, tasks')
  /\ last' = [act |-> "fetchData", cause |-> ops[i].cause,
              ok |-> ops[i].tasksOk, by |-> ops[i].by,
              verRead |-> ops[i].verRead, usersOk |-> ops[i].usersOk,
              prevRead |-> IF last.act = "fetchData" /\ last.ok
                             THEN last.verRead ELSE -1]
  /\ UNCHANGED <<db, dbNext, writes, authChecked, route, now, issued,
                 fetchFailed, drag>>
  /\ UNCHANGED <<newTaskStatus, docsPage, homeView, listView>>

\* onAuthStateChange delivers SIGNED_IN after the check on mount: checkAuth
\* runs again, getCurrentUser returns the user and fetchData starts
AuthSignedIn ==
  /\ authChecked /\ route = "/"
  /\ issued < MaxOps + 1
  /\ issued' = issued + 1
  /\ loading' = TRUE
  /\ error' = FetchDataError(error)
  /\ ops' = Append(ops, FetchOp("signedIn", NoOp))
  /\ dragId' = NULL /\ activeTask' = Nothing /\ overId' = NULL
  /\ last' = [act |-> "checkAuth"]
  /\ UNCHANGED <<db, dbNext, writes, tasks, users, authChecked, route,
                 modalTask, now, fetchFailed, newTaskStatus, docsPage,
                 homeView, listView>>

(***************************************************************************)
(* handleUpdateTask                                                        *)
(***************************************************************************)
\* handleUpdateTask up to its await: local patch, then the update is sent
UpdateTaskCall(upd) ==
  /\ tasks' = PatchQuick(tasks, upd)
  /\ ops' = Append(ops, UpdateOp(upd))
  /\ issued' = issued + 1
  /\ modalTask' = SyncModal(modalTask, tasks')
  /\ UNCHANGED <<db, dbNext, writes, users, error, loading, authChecked, route,
                 now, fetchFailed>>

\* a quick edit on a card
HandleUpdateTask(upd) ==
  /\ CardsReachable /\ ActionsLeft
  /\ UpdateTaskCall(upd)
  /\ last' = [act |-> "handleUpdateTask", upd |-> upd]
  /\ UNCHANGED drag
  /\ UNCHANGED <<newTaskStatus, docsPage, homeView, listView>>

\* the update succeeds: handleUpdateTask does nothing more
UpdateOk(i) ==
  /\ ops[i].kind = "update" /\ ops[i].pc = "sent"
  /\ db' = DbUpdate(db, ops[i].upd)
  /\ writes' = writes + 1
  /\ ops' = RemoveAt(ops, i)
  /\ last' = [act |-> "updateOk"]
  /\ UNCHANGED <<dbNext, tasks, users, error, loading, authChecked, route,
                 modalTask, now, issued, fetchFailed, drag>>
  /\ UNCHANGED <<newTaskStatus, docsPage, homeView, listView>>

\* UpdateErrorRequests without the corrective fetch
UpdateErrorRequestsNone(op) == <<>>

\* the requests handleUpdateTask sends when its update has failed
UpdateErrorRequests(op) == <<FetchOp("update", op)>>

\* the update fails: setError, then fetchData()
UpdateFail(i) ==
  /\ ops[i].kind = "update" /\ ops[i].pc = "sent"
  /\ ops' = RemoveAt(ops, i) \o UpdateErrorRequests(ops[i])
  /\ error' = FetchDataError("Failed to update task")
  /\ loading' = TRUE
  /\ dragId' = NULL /\ activeTask' = Nothing /\ overId' = NULL
  /\ last' = [act |-> "updateFailed", upd |-> ops[i].upd]
  /\ UNCHANGED <<db, dbNext, writes, tasks, users, authChecked, route,
                 modalTask, now, issued, fetchFailed>>
  /\ UNCHANGED <<newTaskStatus, docsPage, homeView, listView>>

(***************************************************************************)
(* The task modal and handleSaveTask (subtask creation)                    *)
(***************************************************************************)
\* onSelect of a card: roots on the board, subtasks at any depth in the
\* mobile list
OpenModal(t) ==
  /\ CardsReachable
  /\ modalTask' = Some(t)
  /\ last' = [act |-> "onSelect"]
  /\ UNCHANGED <<db, dbNext, writes, tasks, users, error, loading, authChecked,
                 route, now, ops, issued, fetchFailed, drag>>
  /\ UNCHANGED <<newTaskStatus, docsPage, homeView, listView>>

\* onClose
CloseModal ==
  /\ BoardVisible /\ modalTask.kind # "none"
  /\ modalTask' = Nothing
  /\ last' = [act |-> "onClose"]
  /\ UNCHANGED <<db, dbNext, writes, tasks, users, error, loading, authChecked,
                 route, now, ops, issued, fetchFailed, drag>>
  /\ newTaskStatus' = NULL
  /\ UNCHANGED <<docsPage, homeView, listView>>

\* Add Subtask in the modal: handleSaveTask with parent_id, up to its
\* await; t is the value of Date.now()
CreateSubtask(t) ==
  /\ BoardVisible /\ ActionsLeft /\ modalTask.kind = "task"
  /\ LET insertData == [parent_id |-> modalTask.task.id, status |-> "todo",
                        priority |-> modalTask.task.priority]
         sub == OptimisticSubtask(TempId(t), insertData)
     IN  /\ now' = t
         /\ error' = NULL
         /\ tasks' = PatchAddSubtask(tasks, insertData.parent_id, sub)
         /\ ops' = Append(ops, InsertOp(insertData, TempId(t)))
         /\ issued' = issued + 1
         /\ modalTask' = SyncModal(modalTask, tasks')
         /\ last' = [act |-> "handleSaveTask", tempId |-> TempId(t),
                     parent |-> insertData.parent_id]
  /\ UNCHANGED <<db, dbNext, writes, users, loading, authChecked, route,
                 fetchFailed, drag>>
  /\ UNCHANGED <<newTaskStatus, docsPage, homeView, listView>>

\* the backend stores the row and generates its id
InsertExec(i) ==
  /\ ops[i].kind = "insert" /\ ops[i].pc = "sent"
  /\ ParentExists(db, ops[i].row.parent_id)
  /\ dbNext' = dbNext + 1
  /\ writes' = writes + 1
  /\ db' = DbInsert(db, NewId(dbNext'), ops[i].row)
  /\ ops' = [ops EXCEPT ![i].pc = "stored", ![i].newId = NewId(dbNext')]
  /\ last' = [act |-> "backend: insert"]
  /\ UNCHANGED <<tasks, users, error, loading, authChecked, route, modalTask,
                 now, issued, fetchFailed, drag>>
  /\ UNCHANGED <<newTaskStatus, docsPage, homeView, listView>>

\* the insert answers with the stored row: the temp id is replaced
InsertResolve(i) ==
  /\ ops[i].kind = "insert" /\ ops[i].pc = "stored"
  /\ tasks' = PatchSwapId(tasks, ops[i].row.parent_id, ops[i].tempId,
                          ops[i].newId)
  /\ ops' = RemoveAt(ops, i)
  /\ modalTask' = SyncModal(modalTask, tasks')
  /\ last' = [act |-> "insertConfirmed", tempId |-> ops[i].tempId,
              parent |-> ops[i].row.parent_id, newId |-> ops[i].newId]
  /\ UNCHANGED <<db, dbNext, writes, users, error, loading, authChecked, route,
                 now, issued, fetchFailed, drag>>
  /\ UNCHANGED <<newTaskStatus, docsPage, homeView, listView>>

\* the insert fails: setError, then fetchData()
InsertFail(i) ==
  /\ ops[i].kind = "insert" /\ ops[i].pc = "sent"
  /\ ops' = Append(RemoveAt(ops, i), FetchOp("insert", ops[i]))
  /\ error' = FetchDataError("Failed to create task")
  /\ loading' = TRUE
  /\ dragId' = NULL /\ activeTask' = Nothing /\ overId' = NULL
  /\ last' = [act |-> "insertFailed", tempId |-> ops[i].tempId]
  /\ UNCHANGED <<db, dbNext, writes, tasks, users, authChecked, route,
                 modalTask, now, issued, fetchFailed>>
  /\ UNCHANGED <<newTaskStatus, docsPage, homeView, listView>>

\* handleSaveTask with an id: the updater for a direct subtask of a root
PatchSaveSubtask(ts, upd) ==
  [i \in 1..Len(ts) |->
     [ts[i] EXCEPT !.subtasks =
        [j \in 1..Len(@) |->
           IF @[j].id = upd.id THEN Merge(@[j], upd) ELSE @[j]]]]

\* handleSaveTask with an id has sent its update
SaveUpdateOp(upd, isSubtask) ==
  [kind |-> "saveUpdate", pc |-> "sent", upd |-> upd,
   isSubtask |-> isSubtask, pre |-> db, ver |-> writes]

\* the checkbox of subtask j in the modal: onSave({id, status}), which is
\* handleSaveTask with an id, up to its await
ToggleSubtask(j) ==
  /\ BoardVisible /\ ActionsLeft /\ modalTask.kind = "task"
  /\ j \in 1..Len(modalTask.task.subtasks)
  /\ LET subtask == modalTask.task.subtasks[j]
         upd == [id |-> subtask.id,
                 status |-> IF subtask.status = "done" THEN "todo"
                                                       ELSE "done"]
         isSubtask == subtask.id \in SubtaskIds(tasks)
     IN  /\ error' = NULL
         /\ tasks' = IF isSubtask THEN PatchSaveSubtask(tasks, upd) ELSE tasks
         /\ ops' = Append(ops, SaveUpdateOp(upd, isSubtask))
         /\ issued' = issued + 1
         /\ modalTask' = SyncModal(modalTask, tasks')
         /\ last' = [act |-> "toggleSubtask", upd |-> upd,
                     parent |-> modalTask.task.id]
  /\ UNCHANGED <<db, dbNext, writes, users, loading, authChecked, route, now,
                 fetchFailed, drag, newTaskStatus, docsPage,
                 homeView, listView>>

\* the update of handleSaveTask succeeds; for a task that is no direct
\* subtask of a root: fetchData(), setModalTask(null)
SaveUpdateOk(i) ==
  /\ ops[i].kind = "saveUpdate" /\ ops[i].pc = "sent"
  /\ db' = DbUpdate(db, ops[i].upd)
  /\ writes' = writes + 1
  /\ last' = [act |-> "saveUpdateOk", upd |-> ops[i].upd]
  /\ IF ops[i].isSubtask
       THEN /\ ops' = RemoveAt(ops, i)
            /\ UNCHANGED <<error, loading, modalTask, drag>>
       ELSE /\ ops' = Append(RemoveAt(ops, i), FetchOp("saved", ops[i]))
            /\ error' = FetchDataError(error)
            /\ loading' = TRUE
            /\ modalTask' = Nothing
            /\ dragId' = NULL /\ activeTask' = Nothing /\ overId' = NULL
  /\ UNCHANGED <<dbNext, tasks, users, authChecked, route, now, issued,
                 fetchFailed, newTaskStatus, docsPage, homeView, listView>>

\* the update of handleSaveTask fails: setError, then fetchData()
SaveUpdateFail(i) ==
  /\ ops[i].kind = "saveUpdate" /\ ops[i].pc = "sent"
  /\ ops' = Append(RemoveAt(ops, i), FetchOp("saveUpdateFailed", ops[i]))
  /\ error' = FetchDataError("Failed to update task")
  /\ loading' = TRUE
  /\ dragId' = NULL /\ activeTask' = Nothing /\ overId' = NULL
  /\ last' = [act |-> "saveUpdateFailed", upd |-> ops[i].upd]
  /\ UNCHANGED <<db, dbNext, writes, tasks, users, authChecked, route,
                 modalTask, now, issued, fetchFailed, newTaskStatus,
                 docsPage, homeView, listView>>

(***************************************************************************)
(* The task modal for a new task and handleSaveTask (regular creation)     *)
(***************************************************************************)
\* modalTask = 'new'
NewTask == [kind |-> "new"]

\* TaskModal, lines 19-22: the status of the form when the modal mounts
\* without a task
FormStatus == IF newTaskStatus # NULL THEN newTaskStatus ELSE "backlog"

\* handleSaveTask has sent the insert of a regular creation
CreateOp(insertData) == [kind |-> "create", pc |-> "sent", row |-> insertData]

\* the New Task button of the header
NewTaskButton ==
  /\ CardsReachable
  /\ modalTask' = NewTask
  /\ last' = [act |-> "newTask"]
  /\ UNCHANGED <<db, dbNext, writes, tasks, users, error, loading, authChecked,
                 route, now, ops, issued, fetchFailed, drag, newTaskStatus,
                 docsPage, homeView, listView>>

\* onQuickCreate: the Add task button of a column
QuickCreate(status) ==
  /\ CardsReachable
  /\ newTaskStatus' = status
  /\ modalTask' = NewTask
  /\ last' = [act |-> "onQuickCreate", status |-> status]
  /\ UNCHANGED <<db, dbNext, writes, tasks, users, error, loading, authChecked,
                 route, now, ops, issued, fetchFailed, drag, docsPage,
                 homeView, listView>>

\* the form of a new task is submitted: handleSaveTask up to its await
SaveNewTask ==
  /\ BoardVisible /\ ActionsLeft /\ modalTask.kind = "new"
  /\ error' = NULL
  /\ ops' = Append(ops, CreateOp([parent_id |-> NULL, status |-> FormStatus,
                                  priority |-> "medium"]))
  /\ issued' = issued + 1
  /\ last' = [act |-> "handleSaveTask", status |-> FormStatus]
  /\ UNCHANGED <<db, dbNext, writes, tasks, users, loading, authChecked, route,
                 modalTask, now, fetchFailed, drag, newTaskStatus, docsPage,
                 homeView, listView>>

\* the insert succeeds: fetchData(), setModalTask(null)
CreateOk(i) ==
  /\ ops[i].kind = "create" /\ ops[i].pc = "sent"
  /\ dbNext' = dbNext + 1
  /\ writes' = writes + 1
  /\ db' = DbInsert(db, NewId(dbNext'), ops[i].row)
  /\ ops' = Append(RemoveAt(ops, i), FetchOp("save", ops[i]))
  /\ error' = FetchDataError(error)
  /\ loading' = TRUE
  /\ modalTask' = Nothing
  /\ dragId' = NULL /\ activeTask' = Nothing /\ overId' = NULL
  /\ last' = [act |-> "created"]
  /\ UNCHANGED <<tasks, users, authChecked, route, now, issued, fetchFailed,
                 newTaskStatus, docsPage, homeView, listView>>

\* the insert fails: setError, the modal stays open
CreateFail(i) ==
  /\ ops[i].kind = "create" /\ ops[i].pc = "sent"
  /\ ops' = RemoveAt(ops, i)
  /\ error' = "Failed to create task"
  /\ last' = [act |-> "createFailed"]
  /\ UNCHANGED <<db, dbNext, writes, tasks, users, loading, authChecked, route,
                 modalTask, now, issued, fetchFailed, drag, newTaskStatus,
                 docsPage, homeView, listView>>

(***************************************************************************)
(* handleDeleteTask                                                        *)
(***************************************************************************)
\* the ids of the rows that go when the rows with these ids go:
\* parent_id ... ON DELETE CASCADE
RECURSIVE CascadeIds(_, _)
CascadeIds(rows, ids) ==
  LET more == ids \cup {rows[i].id : i \in {k \in 1..Len(rows) :
                                              rows[k].parent_id \in ids}}
  IN  IF more = ids THEN ids ELSE CascadeIds(rows, more)

\* DbDelete that removes the one row only
DbDeleteRowOnly(rows, id) == SelectSeq(rows, LAMBDA t : t.id # id)

\* from('tasks').delete().eq('id', id)
DbDelete(rows, id) ==
  SelectSeq(rows, LAMBDA t : t.id \notin CascadeIds(rows, {id}))

\* handleDeleteTask: isSubtask
IsDirectSubtask(ts, id) == id \in SubtaskIds(ts)

\* PatchDelete that filters nothing
PatchDeleteNothing(ts, id) == ts

\* handleDeleteTask: the updater that filters the subtasks lists of the roots
PatchDelete(ts, id) ==
  [i \in 1..Len(ts) |->
     [ts[i] EXCEPT !.subtasks = SelectSeq(@, LAMBDA st : st.id # id)]]

\* handleDeleteTask has sent its delete
DeleteOp(id, isSubtask) ==
  [kind |-> "delete", pc |-> "sent", id |-> id, isSubtask |-> isSubtask,
   pre |-> db, ver |-> writes]

\* Delete is confirmed in the dialog: handleDeleteTask up to its await
HandleDeleteTask(id) ==
  /\ BoardVisible /\ ActionsLeft
  /\ error' = NULL
  /\ tasks' = IF IsDirectSubtask(tasks, id) THEN PatchDelete(tasks, id)
                                            ELSE tasks
  /\ ops' = Append(ops, DeleteOp(id, IsDirectSubtask(tasks, id)))
  /\ issued' = issued + 1
  /\ modalTask' = SyncModal(modalTask, tasks')
  /\ last' = [act |-> "handleDeleteTask", id |-> id]
  /\ UNCHANGED <<db, dbNext, writes, users, loading, authChecked, route, now,
                 fetchFailed, drag, newTaskStatus, docsPage,
                 homeView, listView>>

\* the delete succeeds; for a task that is no direct subtask of a root:
\* fetchData(), setModalTask(null)
DeleteOk(i) ==
  /\ ops[i].kind = "delete" /\ ops[i].pc = "sent"
  /\ db' = DbDelete(db, ops[i].id)
  /\ writes' = writes + 1
  /\ last' = [act |-> "deleted", id |-> ops[i].id]
  /\ IF ops[i].isSubtask
       THEN /\ ops' = RemoveAt(ops, i)
            /\ UNCHANGED <<error, loading, modalTask, drag>>
       ELSE /\ ops' = Append(RemoveAt(ops, i),
                             FetchOp("deleted", [ops[i] EXCEPT !.pre = db]))
            /\ error' = FetchDataError(error)
            /\ loading' = TRUE
            /\ modalTask' = Nothing
            /\ dragId' = NULL /\ activeTask' = Nothing /\ overId' = NULL
  /\ UNCHANGED <<dbNext, tasks, users, authChecked, route, now, issued,
                 fetchFailed, newTaskStatus, docsPage, homeView, listView>>

\* the delete fails: setError, then fetchData()
DeleteFail(i) ==
  /\ ops[i].kind = "delete" /\ ops[i].pc = "sent"
  /\ ops' = Append(RemoveAt(ops, i), FetchOp("deleteFailed", ops[i]))
  /\ error' = FetchDataError("Failed to delete task")
  /\ loading' = TRUE
  /\ dragId' = NULL /\ activeTask' = Nothing /\ overId' = NULL
  /\ last' = [act |-> "deleteFailed", id |-> ops[i].id]
  /\ UNCHANGED <<db, dbNext, writes, tasks, users, authChecked, route,
                 modalTask, now, issued, fetchFailed, newTaskStatus, docsPage,
                 homeView, listView>>

\* the Dismiss button of the banner
DismissError ==
  /\ CardsReachable /\ error # NULL
  /\ error' = NULL
  /\ last' = [act |-> "dismiss"]
  /\ UNCHANGED <<db, dbNext, writes, tasks, users, loading, authChecked, route,
                 modalTask, now, ops, issued, fetchFailed, drag>>
  /\ UNCHANGED <<newTaskStatus, docsPage, homeView, listView>>

(***************************************************************************)
(* DraggableKanbanBoard                                                    *)
(***************************************************************************)
\* the first status, in key order, whose group holds a task with this id
ColumnOf(ts, id) ==
  LET hits == {k \in 1..Len(StatusValues) :
                 \E t \in SeqToSet(StatusGroup(ts, StatusValues[k])) :
                   t.id = id}
  IN  IF hits = {} THEN NULL
      ELSE StatusValues[CHOOSE k \in hits : \A m \in hits : k <= m]

\* ResolveStatus that knows the columns only
ResolveStatusColumnsOnly(ts, over) ==
  IF over \in StatusSet THEN over ELSE NULL

\* ResolveStatus that falls back to the first column
ResolveStatusFirstColumn(ts, over) ==
  IF over \in StatusSet THEN over
  ELSE IF ColumnOf(ts, over) # NULL THEN ColumnOf(ts, over)
  ELSE StatusValues[1]

\* handleDragEnd, lines 106-121: newStatus
ResolveStatus(ts, over) ==
  IF over \in StatusSet THEN over ELSE ColumnOf(ts, over)

\* handleDragOver, lines 78-93: the column to highlight
HighlightOf(ts, over) ==
  IF over \in StatusSet THEN over ELSE ColumnOf(ts, over)

\* statusGroups[status].find(t => t.id === taskId), over the statuses
FindInGroups(ts, id) ==
  LET grp == StatusGroup(ts, ColumnOf(ts, id))
  IN  grp[CHOOSE i \in 1..Len(grp) :
               /\ grp[i].id = id
               /\ \A k \in 1..(i - 1) : grp[k].id # id]

\* handleDragStart
HandleDragStart(id) ==
  /\ CardsReachable
  /\ dragId' = id
  /\ activeTask' = IF ColumnOf(tasks, id) # NULL
                     THEN Some(FindInGroups(tasks, id))
                     ELSE activeTask
  /\ last' = [act |-> "handleDragStart"]
  /\ UNCHANGED <<db, dbNext, writes, tasks, users, error, loading, authChecked,
                 route, modalTask, now, ops, issued, fetchFailed, overId>>
  /\ UNCHANGED <<newTaskStatus, docsPage, homeView, listView>>

\* handleDragOver; over = NULL when the pointer is over no droppable
HandleDragOver(over) ==
  /\ BoardVisible /\ dragId # NULL
  /\ overId' = IF over = NULL THEN NULL ELSE HighlightOf(tasks, over)
  /\ last' = [act |-> "handleDragOver", over |-> over]
  /\ UNCHANGED <<db, dbNext, writes, tasks, users, error, loading, authChecked,
                 route, modalTask, now, ops, issued, fetchFailed, dragId,
                 activeTask>>
  /\ UNCHANGED <<newTaskStatus, docsPage, homeView, listView>>

\* DragEndUpdates without the comparison of the statuses
DragEndUpdatesAlways(active, newStatus) == newStatus # NULL

\* handleDragEnd, line 124: the condition of the call of onUpdate
DragEndUpdates(active, newStatus) ==
  newStatus # NULL /\ active.task.status # newStatus

\* handleDragEnd
HandleDragEnd(over) ==
  /\ BoardVisible /\ dragId # NULL
  /\ overId' = NULL
  /\ activeTask' = Nothing
  /\ dragId' = NULL
  /\ last' = [act |-> "handleDragEnd", over |-> over]
  /\ IF /\ over # NULL /\ activeTask.kind = "task"
        /\ DragEndUpdates(activeTask, ResolveStatus(tasks, over))
       THEN /\ ActionsLeft
            /\ UpdateTaskCall([id |-> activeTask.task.id,
                               status |-> ResolveStatus(tasks, over)])
       ELSE UNCHANGED <<db, dbNext, writes, tasks, users, error, loading,
                        authChecked, route, modalTask, now, ops, issued,
                        fetchFailed>>
  /\ UNCHANGED <<newTaskStatus, docsPage, homeView, listView>>

\* handleDragCancel
HandleDragCancel ==
  /\ BoardVisible /\ dragId # NULL
  /\ overId' = NULL
  /\ activeTask' = Nothing
  /\ dragId' = NULL
  /\ last' = [act |-> "handleDragCancel"]
  /\ UNCHANGED <<db, dbNext, writes, tasks, users, error, loading, authChecked,
                 route, modalTask, now, ops, issued, fetchFailed>>
  /\ UNCHANGED <<newTaskStatus, docsPage, homeView, listView>>

(***************************************************************************)
(* DocumentsPage: grouping and format ranking                              *)
(*                                                                         *)
(* A file name is the sequence of its pieces between the dots:            *)
(* "Report.pdf" is <<"Report", "pdf">> and "Report" is <<"Report">>.       *)
(***************************************************************************)
\* String.prototype.toLowerCase on the pieces used here
ToLowerCase(piece) == IF piece = "PDF" THEN "pdf" ELSE piece

\* the extensions of the regular expression of groupDocuments
StrippedExtensions == {"md", "html", "pdf", "docx", "doc", "txt"}

\* groupDocuments: file_name.replace(/\.(md|html|pdf|docx|doc|txt)$/i, '')
BaseName(fileName) ==
  IF Len(fileName) >= 2 /\ ToLowerCase(fileName[Len(fileName)])
                             \in StrippedExtensions
    THEN SubSeq(fileName, 1, Len(fileName) - 1)
    ELSE fileName

\* getExtension: filename.match(/\.([^.]+)$/)?.[1]?.toLowerCase() || 'file'
GetExtension(fileName) ==
  IF Len(fileName) >= 2 /\ fileName[Len(fileName)] # ""
    THEN ToLowerCase(fileName[Len(fileName)])
    ELSE "file"

\* getFormatPriority: the object literal priority
PriorityTable ==
  [pdf |-> 1, docx |-> 2, doc |-> 3, md |-> 4, html |-> 5, txt |-> 6]

\* the lower-case keys every object literal inherits from Object.prototype:
\* priority[ext] is then a function or an object, which is truthy, so that
\* getFormatPriority returns it instead of a number
InheritedKeys == {"constructor", "__proto__"}

\* getFormatPriority for an extension that is no inherited key
GetFormatPriority(ext) ==
  IF ext \in DOMAIN PriorityTable THEN PriorityTable[ext] ELSE 999

\* the comparator of sortFormats as Array.prototype.sort reads it: a
\* difference with a value that is no number is NaN, which counts as 0
SortCompare(a, b) ==
  LET extA == GetExtension(a.file_name)
      extB == GetExtension(b.file_name)
  IN  IF extA \in InheritedKeys \/ extB \in InheritedKeys THEN 0
      ELSE GetFormatPriority(extA) - GetFormatPriority(extB)

\* Array.prototype.sort with a consistent comparator given by keys: the
\* elements by ascending key, elements of equal key in their former order
StableSortByKey(s, key) ==
  [k \in 1..Len(s) |->
     s[CHOOSE i \in 1..Len(s) :
         1 + Cardinality({j \in 1..Len(s) :
                            \/ key[j] < key[i]
                            \/ key[j] = key[i] /\ j < i}) = k]]

\* the rearrangements of a sequence
Rearrangements(s) ==
  {[k \in 1..Len(s) |-> s[p[k]]] :
     p \in {q \in [1..Len(s) -> 1..Len(s)] :
              \A i, j \in 1..Len(s) : i # j => q[i] # q[j]}}

\* sortFormats: what [...formats].sort(comparator) can return.  When the
\* comparator is not consistent on the elements, the order is
\* implementation-defined
SortFormats(formats) ==
  LET n == Len(formats)
      nums == {i \in 1..n : GetExtension(formats[i].file_name)
                               \notin InheritedKeys}
      prio == [i \in 1..n |->
                 GetFormatPriority(GetExtension(formats[i].file_name))]
  IN  IF nums = 1..n THEN {StableSortByKey(formats, prio)}
      ELSE IF \A i, j \in nums : prio[i] = prio[j] THEN {formats}
      ELSE Rearrangements(formats)

\* GroupPush that puts the document in front
GroupPushFront(formats, doc) == <<doc>> \o formats

\* groupDocuments: group.formats.push(doc)
GroupPush(formats, doc) == Append(formats, doc)

\* groupDocuments: the body of docs.forEach; groups are the values of
\* groupMap in insertion order
AddToGroups(groups, doc) ==
  LET baseName == BaseName(doc.file_name)
      hit == {g \in 1..Len(groups) : groups[g].baseName = baseName}
  IN  IF hit # {}
        THEN [groups EXCEPT ![CHOOSE g \in hit : TRUE].formats =
                               GroupPush(@, doc)]
        ELSE Append(groups, [baseName |-> baseName, displayName |-> doc.name,
                             formats |-> <<doc>>,
                             created_at |-> doc.created_at])

RECURSIVE GroupFold(_, _)
GroupFold(groups, docs) ==
  IF docs = <<>> THEN groups
  ELSE GroupFold(AddToGroups(groups, Head(docs)), Tail(docs))

\* groupDocuments: the groups, newest first
GroupDocuments(docs) ==
  LET groups == GroupFold(<<>>, docs)
  IN  StableSortByKey(groups, [g \in 1..Len(groups) |-> 0 - groups[g].created_at])

\* fetchData of DocumentsPage after its documents query returned rows
DocsFetchResolve ==
  /\ documents' = docTable
  /\ documentGroups' = GroupDocuments(docTable)
  /\ sortedFormats' = <<>>
  /\ last' = [act |-> "fetchData documents"]
  /\ UNCHANGED <<db, dbNext, writes, tasks, users, error, loading, authChecked,
                 route, modalTask, now, ops, issued, fetchFailed, drag,
                 newTaskStatus, docTable, docDelete, docsPending, docsError,
                 homeView, listView>>

\* a dropdown of group g is rendered: sortFormats(group.formats)
ShowFormats(g) ==
  /\ sortedFormats' \in SortFormats(documentGroups[g].formats)
  /\ last' = [act |-> "sortFormats", group |-> g]
  /\ UNCHANGED <<db, dbNext, writes, tasks, users, error, loading, authChecked,
                 route, modalTask, now, ops, issued, fetchFailed, drag,
                 newTaskStatus, docTable, documents, documentGroups,
                 docDelete, docsPending, docsError, homeView, listView>>

\* getBestFormat for the list a dropdown shows
GetBestFormat == sortedFormats[1]

(***************************************************************************)
(* Inputs                                                                  *)
(***************************************************************************)
\* an id that no task has
StrayId == "gone"

\* the tasks handleUpdateTask can reach: roots and their direct subtasks
QuickTargets == RootIds(tasks) \cup SubtaskIds(tasks)

\* the ids a drag can end over: the columns, the cards, and none of them
OverInputs == {NULL, StrayId} \cup StatusSet \cup RootIds(tasks)

\* the ids a drag can start on
DragInputs == {StrayId} \cup RootIds(tasks)

(***************************************************************************)
(* Steps of the task board                                                 *)
(***************************************************************************)
QuickUpdate == \E id \in QuickTargets : \E upd \in QuickEdits(id) :
                 HandleUpdateTask(upd)

UpdateResponds == \E i \in 1..Len(ops) : UpdateOk(i) \/ UpdateFail(i)

FetchSteps == \E i \in 1..Len(ops) :
                \/ \E ok \in BOOLEAN : FetchUsersRespond(i, ok)
                \/ \E ok \in BOOLEAN : FetchTasksExec(i, ok)
                \/ FetchResolve(i)

\* the same with a users query that succeeds
FetchStepsUsersOk == \E i \in 1..Len(ops) :
                       \/ FetchUsersRespond(i, TRUE)
                       \/ \E ok \in BOOLEAN : FetchTasksExec(i, ok)
                       \/ FetchResolve(i)

ModalSteps == \/ \E t \in NodesOf(tasks) : OpenModal(t)
              \/ CloseModal
              \/ \E t \in now..MaxNow : CreateSubtask(t)

InsertResponds == \E i \in 1..Len(ops) :
                    InsertExec(i) \/ InsertResolve(i) \/ InsertFail(i)

\* one gesture at a time: a drag starts when every request has been answered
DragSteps == \/ \E id \in DragInputs : ops = <<>> /\ HandleDragStart(id)
             \/ \E over \in OverInputs : HandleDragOver(over)
             \/ \E over \in OverInputs : HandleDragEnd(over)
             \/ HandleDragCancel

(***************************************************************************)
(* Spec: the board with quick updates from the cards                       *)
(***************************************************************************)
Next ==
  \/ CheckAuthNoUser
  \/ CheckAuthUser
  \/ FetchStepsUsersOk
  \/ QuickUpdate
  \/ UpdateResponds
  \/ DismissError

Spec == Init /\ [][Next]_vars

(***************************************************************************)
(* SpecFetch: the board with repeated and failing fetches                  *)
(***************************************************************************)
\* the card t1 is moved to done
QuickUpdateRoot == HandleUpdateTask([id |-> "t1", status |-> "done"])

\* the backend accepts the update: the edit is there to change the rows
\* between two fetches; its failure is explored by Spec
UpdateSucceeds == \E i \in 1..Len(ops) : UpdateOk(i)

NextFetch ==
  \/ CheckAuthNoUser
  \/ CheckAuthUser
  \/ AuthSignedIn
  \/ FetchSteps
  \/ QuickUpdateRoot
  \/ UpdateSucceeds
  \/ DismissError

SpecFetch == Init /\ [][NextFetch]_vars

(***************************************************************************)
(* SpecLive: the backend answers every request                             *)
(***************************************************************************)
NextLive ==
  \/ CheckAuthNoUser
  \/ CheckAuthUser
  \/ FetchSteps
  \/ QuickUpdateRoot
  \/ UpdateResponds
  \/ DismissError

\* every query of a fetchData and every update gets its answer, and the
\* continuation of the handler runs
SpecLive ==
  /\ Init /\ [][NextLive]_vars
  /\ WF_vars(FetchSteps)
  /\ WF_vars(UpdateResponds)

(***************************************************************************)
(* SpecSave: the board with the task modal and subtask creation            *)
(***************************************************************************)
\* a root and its subtask
SaveRows == <<Row("t1", NULL, "todo"), Row("t2", "t1", "todo")>>

InitSave == Loaded(SaveRows)

NextSave ==
  \/ FetchStepsUsersOk
  \/ ModalSteps
  \/ InsertResponds
  \/ DismissError

SpecSave == InitSave /\ [][NextSave]_vars

(***************************************************************************)
(* SpecToggle: the subtask checkboxes of the modal                         *)
(***************************************************************************)
\* a root with an open and a completed subtask, the latter with a subtask
\* of its own, and a second root
ToggleRows ==
  <<Row("t1", NULL, "todo"), Row("t2", "t1", "todo"),
    [Row("t3", "t1", "done") EXCEPT !.completed_at = "c1"],
    Row("t4", "t3", "todo"), Row("t5", NULL, "done")>>

ToggleSteps ==
  \/ \E t \in NodesOf(tasks) : OpenModal(t)
  \/ CloseModal
  \/ \E j \in 1..MaxRows : ToggleSubtask(j)

SaveUpdateResponds ==
  \E i \in 1..Len(ops) : SaveUpdateOk(i) \/ SaveUpdateFail(i)

InitToggle == Loaded(ToggleRows)

NextToggle ==
  \/ ToggleSteps
  \/ SaveUpdateResponds
  \/ FetchStepsUsersOk

SpecToggle == InitToggle /\ [][NextToggle]_vars

(***************************************************************************)
(* SpecNew: the board with the modal for new tasks                         *)
(***************************************************************************)
NewTaskSteps == \/ NewTaskButton
                \/ \E status \in StatusSet : QuickCreate(status)
                \/ CloseModal
                \/ SaveNewTask

CreateResponds == \E i \in 1..Len(ops) : CreateOk(i) \/ CreateFail(i)

InitNew == Loaded(SaveRows)

NextNew ==
  \/ NewTaskSteps
  \/ CreateResponds
  \/ FetchStepsUsersOk
  \/ DismissError

SpecNew == InitNew /\ [][NextNew]_vars

(***************************************************************************)
(* SpecDelete: the board with deletions                                    *)
(***************************************************************************)
\* a root with a subtask that has a subtask, and a root without subtasks
DeleteRows ==
  <<Row("t1", NULL, "todo"), Row("t2", "t1", "todo"),
    Row("t3", "t2", "todo"), Row("t4", NULL, "done")>>

\* the tasks a Delete button exists for: every card, at any depth
DeleteTargets == {n.id : n \in NodesOf(tasks)}

DeleteSteps == \E id \in DeleteTargets : HandleDeleteTask(id)

DeleteResponds == \E i \in 1..Len(ops) : DeleteOk(i) \/ DeleteFail(i)

InitDelete == Loaded(DeleteRows)

NextDelete ==
  \/ DeleteSteps
  \/ DeleteResponds
  \/ FetchStepsUsersOk

SpecDelete == InitDelete /\ [][NextDelete]_vars

(***************************************************************************)
(* SpecPatch: handleUpdateTask on any id                                   *)
(***************************************************************************)
\* the ids handleUpdateTask is called with: every card at any depth, and
\* an id that the forest does not hold
PatchTargets == {n.id : n \in NodesOf(tasks)} \cup {StrayId}

\* the edits of the status menu and of the priority menu of a card
PatchEdits(id) ==
  {[id |-> id, status |-> "done"], [id |-> id, priority |-> "high"]}

PatchSteps == \E id \in PatchTargets : \E upd \in PatchEdits(id) :
                HandleUpdateTask(upd)

InitPatch == Loaded(DeleteRows)

NextPatch ==
  \/ PatchSteps
  \/ UpdateResponds
  \/ FetchStepsUsersOk

SpecPatch == InitPatch /\ [][NextPatch]_vars

(***************************************************************************)
(* SpecDocs: DocumentsPage on every small documents table                  *)
(***************************************************************************)
\* file names: ranked extensions from both ends of the table, upper case,
\* an extension that is not ranked, none, a second stem, and an inherited
\* key of the priority object
FileNames ==
  {<<"Report", "pdf">>, <<"Report", "docx">>, <<"Report", "html">>,
   <<"Report", "txt">>, <<"Report", "PDF">>, <<"Report", "csv">>,
   <<"Report">>, <<"Notes", "pdf">>, <<"Notes", "constructor">>,
   <<"Notes", "constructor", "pdf">>}

\* values of created_at
DocTimes == {1, 2}

\* the creation times of n documents as the documents query returns them:
\* .order('created_at', {ascending: false})
QueryTimes(n) ==
  {u \in [1..n -> DocTimes] : \A k \in 1..(n - 1) : u[k] >= u[k + 1]}

\* the result of the documents query with file names f and creation times
\* t; the name of a document stands for its name, description and creator
DocTable(n, f, t) ==
  [k \in 1..n |-> [id |-> k, name |-> k, file_name |-> f[k],
                   created_at |-> t[k]]]

\* DocumentsPage as constructed; Home is not mounted
InitDocs ==
  /\ db = <<>>
  /\ dbNext = 0
  /\ writes = 0
  /\ tasks = <<>>
  /\ users = <<>>
  /\ error = NULL
  /\ loading = TRUE
  /\ authChecked = FALSE
  /\ route = "/documents"
  /\ modalTask = Nothing
  /\ now = 1
  /\ ops = <<>>
  /\ issued = 0
  /\ fetchFailed = FALSE
  /\ last = [act |-> "mount"]
  /\ dragId = NULL
  /\ activeTask = Nothing
  /\ overId = NULL
  /\ newTaskStatus = NULL
  /\ \E n \in 1..MaxDocs :
       \E f \in [1..n -> FileNames], t \in QueryTimes(n) :
         docTable = DocTable(n, f, t)
  /\ documents = <<>>
  /\ documentGroups = <<>>
  /\ sortedFormats = <<>>
  /\ docDelete = Nothing
  /\ docsPending = 0
  /\ docsError = NULL
  /\ HomeViewInit
  /\ ListInit
  /\ listLen = 0

NextDocs ==
  \/ DocsFetchResolve
  \/ \E g \in 1..Len(documentGroups) : ShowFormats(g)

SpecDocs == InitDocs /\ [][NextDocs]_vars

(***************************************************************************)
(* confirmDelete of DocumentsPage: one delete request per format of the    *)
(* group, each awaited before the next is sent                             *)
(***************************************************************************)
\* from('documents').delete().eq('id', id)
DocDbDelete(rows, id) == SelectSeq(rows, LAMBDA d : d.id # id)

DocsFrame ==
  UNCHANGED <<db, dbNext, writes, tasks, users, error, loading, authChecked,
              route, modalTask, now, ops, issued, fetchFailed, drag,
              newTaskStatus, homeView, listView>>

\* the Delete button of the confirmation dialog: the group is looked up and
\* the delete request of its first format is sent
ConfirmDelete(g) ==
  /\ route = "/documents"
  /\ ActionsLeft
  /\ docDelete = Nothing
  /\ docDelete' = [kind |-> "run", formats |-> documentGroups[g].formats,
                   next |-> 1]
  /\ issued' = issued + 1
  /\ last' = [act |-> "confirmDelete", group |-> g]
  /\ UNCHANGED <<docTable, documents, documentGroups, sortedFormats,
                 docsPending, docsError>>
  /\ UNCHANGED <<db, dbNext, writes, tasks, users, error, loading,
                 authChecked, route, modalTask, now, ops, fetchFailed, drag,
                 newTaskStatus, homeView, listView>>

\* the backend deletes the row and answers without error: the loop goes on
\* to the next format, or the handler ends with setDeleteConfirm(null) and
\* fetchData(), which starts with setError(null)
DeleteFormatOk ==
  /\ docDelete.kind = "run"
  /\ docTable' = DocDbDelete(docTable, docDelete.formats[docDelete.next].id)
  /\ IF docDelete.next < Len(docDelete.formats)
       THEN /\ docDelete' = [docDelete EXCEPT !.next = @ + 1]
            /\ UNCHANGED <<docsPending, docsError>>
       ELSE /\ docDelete' = Nothing
            /\ docsPending' = docsPending + 1
            /\ docsError' = NULL
  /\ last' = [act |-> "deleteFormat", ok |-> TRUE,
              finished |-> docDelete.next = Len(docDelete.formats)]
  /\ UNCHANGED <<documents, documentGroups, sortedFormats>>
  /\ DocsFrame

\* the delete request is answered with an error: the handler returns
DeleteFormatFail ==
  /\ docDelete.kind = "run"
  /\ docDelete' = Nothing
  /\ docsError' = "Failed to delete document"
  /\ last' = [act |-> "deleteFormat", ok |-> FALSE, finished |-> TRUE]
  /\ UNCHANGED <<docTable, documents, documentGroups, sortedFormats,
                 docsPending>>
  /\ DocsFrame

\* the documents query of a fetchData that confirmDelete called is answered
DocsRefetchResolve ==
  /\ docsPending > 0
  /\ docsPending' = docsPending - 1
  /\ documents' = docTable
  /\ documentGroups' = GroupDocuments(docTable)
  /\ sortedFormats' = <<>>
  /\ last' = [act |-> "fetchData documents", cause |-> "confirmDelete"]
  /\ UNCHANGED <<docTable, docDelete, docsError>>
  /\ DocsFrame

(***************************************************************************)
(* SpecDocDelete: the loaded documents page with group deletions           *)
(***************************************************************************)
\* one group of two formats and one group of one format
DeleteFileNames ==
  {<<"Report", "pdf">>, <<"Report", "docx">>, <<"Notes", "pdf">>}

\* DocumentsPage after checkAuth and a fetchData that succeeded
InitDocDelete ==
  /\ db = <<>>
  /\ dbNext = 0
  /\ writes = 0
  /\ tasks = <<>>
  /\ users = <<>>
  /\ error = NULL
  /\ loading = TRUE
  /\ authChecked = FALSE
  /\ route = "/documents"
  /\ modalTask = Nothing
  /\ now = 1
  /\ ops = <<>>
  /\ issued = 0
  /\ fetchFailed = FALSE
  /\ last = [act |-> "fetchData documents"]
  /\ dragId = NULL
  /\ activeTask = Nothing
  /\ overId = NULL
  /\ newTaskStatus = NULL
  /\ \E n \in 1..MaxDocs :
       \E f \in [1..n -> DeleteFileNames], t \in QueryTimes(n) :
         docTable = DocTable(n, f, t)
  /\ documents = docTable
  /\ documentGroups = GroupDocuments(docTable)
  /\ sortedFormats = <<>>
  /\ docDelete = Nothing
  /\ docsPending = 0
  /\ docsError = NULL
  /\ HomeViewInit
  /\ ListInit
  /\ listLen = 0

NextDocDelete ==
  \/ \E g \in 1..Len(documentGroups) : ConfirmDelete(g)
  \/ DeleteFormatOk
  \/ DeleteFormatFail
  \/ DocsRefetchResolve

SpecDocDelete == InitDocDelete /\ [][NextDocDelete]_vars

(***************************************************************************)
(* The filter bar of Home and the columns of the board                     *)
(***************************************************************************)
\* String.prototype.toLowerCase on one character
LowerChar(c) ==
  CASE c = "A" -> "a"
    [] c = "B" -> "b"
    [] OTHER -> c

\* String.prototype.toLowerCase on a sequence of characters
LowerCased(str) == [i \in 1..Len(str) |-> LowerChar(str[i])]

\* String.prototype.includes
Includes(str, q) ==
  \E i \in 0..(Len(str) - Len(q)) : SubSeq(str, i + 1, i + Len(q)) = q

\* filteredTasks
FilteredTasks(ts, fStatus, fAssignee, query) ==
  SelectSeq(ts, LAMBDA task :
    /\ ~(fStatus # "all" /\ task.status # fStatus)
    /\ ~(fAssignee # "all" /\ task.assignee_id # fAssignee)
    /\ ~(query # <<>>
           /\ ~Includes(LowerCased(task.title), LowerCased(query))))

\* statusGroups
StatusGroups(ts, fStatus, fAssignee, query) ==
  [status \in StatusSet |->
     StatusGroup(FilteredTasks(ts, fStatus, fAssignee, query), status)]

\* options of the status select: All, and the columns the rows and the
\* edits of SpecFilter use
FilterStatusOptions == {"all", "in_progress", "review"}

\* the options of the assignee select
FilterAssigneeOptions == {"all"} \cup SeqToSet(users)

\* texts typed into the search box: none, one that matches a title in
\* another case, one that matches no title
SearchTexts == {<<>>, <<"A", "B">>, <<"b", "b">>}

FilterFrame ==
  UNCHANGED <<db, dbNext, writes, tasks, users, error, loading, authChecked,
              route, modalTask, now, ops, issued, fetchFailed, drag,
              newTaskStatus, docsPage, viewMode, listView>>

\* the status select
SetFilterStatus(v) ==
  /\ BoardVisible
  /\ filterStatus' = v
  /\ last' = [act |-> "setFilterStatus"]
  /\ UNCHANGED <<filterAssignee, searchQuery>>
  /\ FilterFrame

\* the assignee select
SetFilterAssignee(v) ==
  /\ BoardVisible
  /\ filterAssignee' = v
  /\ last' = [act |-> "setFilterAssignee"]
  /\ UNCHANGED <<filterStatus, searchQuery>>
  /\ FilterFrame

\* the search box
SetSearchQuery(q) ==
  /\ BoardVisible
  /\ searchQuery' = q
  /\ last' = [act |-> "setSearchQuery"]
  /\ UNCHANGED <<filterStatus, filterAssignee>>
  /\ FilterFrame

(***************************************************************************)
(* SpecFilter: the loaded board with the filter bar and quick updates      *)
(***************************************************************************)
\* roots in three columns, one of them assigned, and a subtask
FilterRows ==
  <<Row("t1", NULL, "todo"), Row("t2", "t1", "done"),
    [Row("t3", NULL, "review") EXCEPT !.assignee_id = "u1"],
    Row("t4", NULL, "backlog")>>

\* the quick edits that move a task between the columns and the filters:
\* the status of any card and the assignee of a root card
FilterEdits(id) ==
  {[id |-> id, status |-> "in_progress"]}
    \cup IF id \in RootIds(tasks) THEN {[id |-> id, assignee_id |-> "u2"]}
         ELSE {}

FilterSteps ==
  \/ \E v \in FilterStatusOptions : SetFilterStatus(v)
  \/ \E v \in FilterAssigneeOptions : SetFilterAssignee(v)
  \/ \E q \in SearchTexts : SetSearchQuery(q)

FilterUpdates ==
  \E id \in QuickTargets : \E upd \in FilterEdits(id) : HandleUpdateTask(upd)

InitFilter == Loaded(FilterRows)

NextFilter ==
  \/ FilterSteps
  \/ FilterUpdates
  \/ UpdateSucceeds

SpecFilter == InitFilter /\ [][NextFilter]_vars

(***************************************************************************)
(* ListView (src/components/ListView.tsx), mounted by Home while the view  *)
(* mode is list and loading is false.  The component reads its tasks prop  *)
(* only through the length where pagination is concerned, so the prop is   *)
(* held as listLen.                                                        *)
(***************************************************************************)
\* the options of the page-size select
PageSizes == {10, 20, 50, 100}

\* SortField
SortFields ==
  {"title", "status", "priority", "assignee", "due_date", "created_at"}

Min(a, b) == IF a < b THEN a ELSE b

Max(a, b) == IF a > b THEN a ELSE b

\* Math.ceil(sortedTasks.length / pageSize)
TotalPages(len, size) == (len + size - 1) \div size

\* sortedTasks.slice((currentPage - 1) * pageSize, currentPage * pageSize),
\* its length: both indices are clamped to the length of the array
PaginatedLen(len, page, size) ==
  LET start == Min(len, (page - 1) * size)
      end == Min(len, page * size)
  IN  IF end > start THEN end - start ELSE 0

\* the numbers on the page buttons
PageNums(page, total) ==
  {IF total <= 5 THEN i + 1
   ELSE IF page <= 3 THEN i + 1
   ELSE IF page >= total - 2 THEN total - 4 + i
   ELSE page - 2 + i : i \in 0..(Min(5, total) - 1)}

ListMounted == BoardVisible /\ viewMode = "list"

\* the pagination bar is rendered
PaginationShown == ListMounted /\ listLen > 0

ListFrame ==
  UNCHANGED <<db, dbNext, writes, tasks, users, error, loading, authChecked,
              route, modalTask, now, ops, issued, fetchFailed, drag,
              newTaskStatus, docsPage, filterStatus, filterAssignee,
              searchQuery>>

\* the view switch: ListView is mounted with the filtered tasks, or unmounted
SetViewMode(mode, n) ==
  /\ BoardVisible
  /\ mode # viewMode
  /\ viewMode' = mode
  /\ sortField' = "created_at"
  /\ sortDirection' = "desc"
  /\ currentPage' = 1
  /\ pageSize' = 20
  /\ listLen' = IF mode = "list" THEN n ELSE 0
  /\ last' = [act |-> "setViewMode", mode |-> mode]
  /\ ListFrame

\* the filter bar or a handler of Home changes filteredTasks while the list
\* is shown: the component renders again with the new prop and keeps its state
TasksChange(n) ==
  /\ ListMounted
  /\ n # listLen
  /\ listLen' = n
  /\ last' = [act |-> "tasksChange"]
  /\ UNCHANGED <<viewMode, sortField, sortDirection, currentPage, pageSize>>
  /\ ListFrame

\* a click on a column header
HandleSort(field) ==
  /\ ListMounted
  /\ IF sortField = field
       THEN /\ sortDirection' = IF sortDirection = "asc" THEN "desc" ELSE "asc"
            /\ sortField' = sortField
       ELSE /\ sortField' = field
            /\ sortDirection' = "asc"
  /\ currentPage' = 1
  /\ last' = [act |-> "handleSort", field |-> field]
  /\ UNCHANGED <<viewMode, pageSize, listLen>>
  /\ ListFrame

\* the page-size select
SetPageSize(size) ==
  /\ PaginationShown
  /\ pageSize' = size
  /\ currentPage' = 1
  /\ last' = [act |-> "setPageSize", size |-> size]
  /\ UNCHANGED <<viewMode, sortField, sortDirection, listLen>>
  /\ ListFrame

\* the button with the left chevron
PrevPage ==
  /\ PaginationShown
  /\ currentPage # 1
  /\ currentPage' = Max(1, currentPage - 1)
  /\ last' = [act |-> "prevPage"]
  /\ UNCHANGED <<viewMode, sortField, sortDirection, pageSize, listLen>>
  /\ ListFrame

\* the button with the right chevron
NextPage ==
  /\ PaginationShown
  /\ currentPage # TotalPages(listLen, pageSize)
  /\ currentPage' = Min(TotalPages(listLen, pageSize), currentPage + 1)
  /\ last' = [act |-> "nextPage"]
  /\ UNCHANGED <<viewMode, sortField, sortDirection, pageSize, listLen>>
  /\ ListFrame

\* a numbered page button
GotoPage(pageNum) ==
  /\ PaginationShown
  /\ pageNum \in PageNums(currentPage, TotalPages(listLen, pageSize))
  /\ currentPage' = pageNum
  /\ last' = [act |-> "gotoPage", page |-> pageNum]
  /\ UNCHANGED <<viewMode, sortField, sortDirection, pageSize, listLen>>
  /\ ListFrame

(***************************************************************************)
(* SpecList: the loaded board in list view                                 *)
(***************************************************************************)
\* lengths of the tasks prop: the multiples of the smallest page size and
\* the lengths one above them, up to seven pages of the smallest size
ListLens == {n \in 0..MaxList : n % 10 \in {0, 1}}

InitList == Loaded(ScenarioRows)

NextList ==
  \/ \E mode \in {"board", "list"}, n \in ListLens : SetViewMode(mode, n)
  \/ \E n \in ListLens : TasksChange(n)
  \/ \E field \in SortFields : HandleSort(field)
  \/ \E size \in PageSizes : SetPageSize(size)
  \/ PrevPage
  \/ NextPage
  \/ \E pageNum \in 1..MaxList : GotoPage(pageNum)

SpecList == InitList /\ [][NextList]_vars

(***************************************************************************)
(* SpecDrag: the loaded board with drag and drop                           *)
(***************************************************************************)
\* two cards in one column and cards in three columns
DragRows ==
  <<Row("t1", NULL, "todo"), Row("t2", "t1", "todo"),
    Row("t3", NULL, "todo"), Row("t4", NULL, "review"),
    Row("t5", NULL, "done")>>

InitDrag == Loaded(DragRows)

NextDrag ==
  \/ DragSteps
  \/ UpdateResponds
  \/ FetchStepsUsersOk

SpecDrag == InitDrag /\ [][NextDrag]_vars

(***************************************************************************)
(* SpecTree: fetchData on every small table                                *)
(***************************************************************************)
TaskId(k) == <<"t1", "t2", "t3", "t4", "t5">>[k]

TreeIds == {TaskId(k) : k \in 1..MaxRows}

\* the sequences of 1..MaxRows rows with distinct ids; a parent_id is null,
\* the id of a row of the universe, or an id that no row has
TreeInputs ==
  UNION {{r \in [1..n -> [id : TreeIds,
                          parent_id : TreeIds \cup {NULL, StrayId},
                          status : {"todo"}, priority : {"medium"},
                          assignee_id : {NULL}, due_date : {NULL},
                          completed_at : {NULL}, title : {<<"a">>}]] :
            \A i, j \in 1..n : i # j => r[i].id # r[j].id} :
         n \in 1..MaxRows}

\* fetchData has been called by checkAuth
InitTree ==
  /\ db \in TreeInputs
  /\ dbNext = 0
  /\ writes = 0
  /\ tasks = <<>>
  /\ users = <<>>
  /\ error = NULL
  /\ loading = TRUE
  /\ authChecked = TRUE
  /\ route = "/"
  /\ modalTask = Nothing
  /\ now = 1
  /\ ops = <<FetchOp("mount", NoOp)>>
  /\ issued = 0
  /\ fetchFailed = FALSE
  /\ last = [act |-> "checkAuth"]
  /\ dragId = NULL
  /\ activeTask = Nothing
  /\ overId = NULL
  /\ newTaskStatus = NULL
  /\ DocsInit
  /\ HomeViewInit
  /\ ListInit
  /\ listLen = 0

NextTree == FetchSteps

SpecTree == InitTree /\ [][NextTree]_vars

(***************************************************************************)
(* Properties of the tree builder                                          *)
(***************************************************************************)
\* number of nodes with this id in a forest, at any depth
RECURSIVE CountIn(_, _)
CountIn(ts, id) ==
  IF ts = <<>> THEN 0
  ELSE (IF Head(ts).id = id THEN 1 ELSE 0)
       + CountIn(Head(ts).subtasks, id) + CountIn(Tail(ts), id)

IdsOf(rows) == {rows[i].id : i \in 1..Len(rows)}

\* the row with this id
RowOf(rows, id) == rows[CHOOSE i \in 1..Len(rows) : rows[i].id = id]

\* following parent_id from t leaves the fetched set within n steps
RECURSIVE ChainEnds(_, _, _)
ChainEnds(rows, t, n) ==
  IF t.parent_id = NULL \/ t.parent_id \notin IdsOf(rows) THEN TRUE
  ELSE IF n = 0 THEN FALSE
  ELSE ChainEnds(rows, RowOf(rows, t.parent_id), n - 1)

\* the parent references of the rows form no cycle
Acyclic(rows) == \A i \in 1..Len(rows) : ChainEnds(rows, rows[i], Len(rows))

\* a fetchData whose tasks query succeeded has just stored its forest
JustFetched == last.act = "fetchData" /\ last.ok

\* C3 as claimed: after a fetch of rows with distinct ids and any parent_id
\* values, every fetched task occurs exactly once in the stored forest
C3_Original ==
  JustFetched => \A i \in 1..Len(db) : CountIn(tasks, db[i].id) = 1

\* C3 amended: after a fetch of rows with distinct ids whose parent_id
\* references form no cycle, every fetched task occurs exactly once in the
\* stored forest, as a root or under exactly one parent
C3_ExactlyOnce ==
  (JustFetched /\ Acyclic(db)) =>
     \A i \in 1..Len(db) : CountIn(tasks, db[i].id) = 1

\* a chain of three tasks has been fetched: a root, its subtask, and a
\* subtask of that subtask
C3_Witness ==
  /\ JustFetched /\ Acyclic(db) /\ Len(db) = 3
  /\ \E i \in 1..Len(tasks) :
       /\ Len(tasks[i].subtasks) = 1
       /\ Len(tasks[i].subtasks[1].subtasks) = 1

\* C9: after a fetch, every task whose parent_id is null, and every task
\* whose parent_id is the id of no fetched task, is a root of the forest
C9_OrphansAreRoots ==
  JustFetched =>
     \A i \in 1..Len(db) :
        (db[i].parent_id = NULL \/ db[i].parent_id \notin IdsOf(db))
           => db[i].id \in RootIds(tasks)

\* a task whose parent_id names no fetched task has been fetched, next to a
\* task nested under its parent
C9_Witness ==
  /\ JustFetched
  /\ \E i \in 1..Len(db) :
       /\ db[i].parent_id = StrayId
       /\ db[i].id \in RootIds(tasks)
  /\ \E i \in 1..Len(tasks) : tasks[i].subtasks # <<>>


\* the place of the row with this id in a sequence of rows
Pos(rows, id) == CHOOSE i \in 1..Len(rows) : rows[i].id = id

\* the tasks of a list stand in the order of their rows
InFetchedOrder(rows, list) ==
  \A i, j \in 1..Len(list) :
     i < j => Pos(rows, list[i].id) < Pos(rows, list[j].id)

\* the ids of a list, in order
IdSeq(list) == [i \in 1..Len(list) |-> list[i].id]

\* rows 1 (no parent), 2 (parent 1), 3 (no parent)
ExampleFetched ==
  /\ IdSeq(db) = <<"t1", "t2", "t3">>
  /\ [i \in 1..Len(db) |-> db[i].parent_id] = <<NULL, "t1", NULL>>

\* C18: the tree builder preserves the fetched order: after a fetch the
\* roots stand in the order of their rows and so does every subtasks list;
\* for rows 1 (no parent), 2 (parent 1), 3 (no parent) the roots are [1, 3],
\* task 1 carries the subtasks [2] and task 3 carries none
C18_FetchedOrderKept ==
  JustFetched =>
    /\ InFetchedOrder(db, tasks)
    /\ \A n \in NodesOf(tasks) : InFetchedOrder(db, n.subtasks)
    /\ ExampleFetched =>
          /\ IdSeq(tasks) = <<"t1", "t3">>
          /\ IdSeq(tasks[1].subtasks) = <<"t2">>
          /\ tasks[2].subtasks = <<>>

\* the rows of the example have been fetched and built into a forest
C18_Witness ==
  /\ JustFetched /\ ExampleFetched
  /\ Len(tasks) = 2 /\ Len(tasks[1].subtasks) = 1

(***************************************************************************)
(* Properties of the optimistic update controller                          *)
(***************************************************************************)
\* the roots and direct subtasks of a forest that have this id
Reachable(ts, id) ==
  {n \in SeqToSet(ts) \cup UNION {SeqToSet(ts[i].subtasks) : i \in 1..Len(ts)} :
     n.id = id}

\* node n shows every field of the update
Shows(n, upd) == \A f \in DOMAIN upd : n[f] = upd[f]

InFlight(kind) == {i \in 1..Len(ops) : ops[i].kind = kind}

CountOps(os, kind) == Cardinality({i \in 1..Len(os) : os[i].kind = kind})

\* C1 as claimed: with quick updates that succeed or fail and the fetches
\* they trigger, once the board is loaded, no request is in flight and no
\* query of a fetch has failed, the local forest is the forest built from
\* the backend's current rows
C1_Original ==
  (authChecked /\ ops = <<>> /\ ~fetchFailed) => tasks = BuildTree(db)

\* a corrective fetchData for a failed quick update has just stored its
\* forest, and no write reached the backend between the sending of the
\* update and the tasks query of the fetch
RevertedCleanly ==
  /\ last.act = "fetchData" /\ last.cause = "update" /\ last.ok
  /\ last.verRead = last.by.ver

\* C2: when a quick update has failed and its corrective fetchData has
\* resolved, the local forest is the forest of the backend rows as they
\* were before the mutation
C2_RevertsToCanonical ==
  RevertedCleanly => tasks = BuildTree(last.by.pre)

\* a failed edit of a task has been reverted: the task no longer shows it
C2_Witness ==
  /\ RevertedCleanly
  /\ tasks = BuildTree(last.by.pre)
  /\ \E n \in Reachable(tasks, last.by.upd.id) : ~Shows(n, last.by.upd)

\* C4: when handleUpdateTask has run for a root or a direct subtask of a
\* root, that task shows the edited fields in the local forest while the
\* update request is still unanswered and the backend row is as before
C4_PatchBeforeRequest ==
  last.act = "handleUpdateTask" =>
     /\ Reachable(tasks, last.upd.id) # {}
     /\ \A n \in Reachable(tasks, last.upd.id) : Shows(n, last.upd)
     /\ ops # <<>>
     /\ ops[Len(ops)].kind = "update"
     /\ ops[Len(ops)].pc = "sent"
     /\ ops[Len(ops)].upd = last.upd
     /\ ops[Len(ops)].pre = db

\* a direct subtask has been edited: the forest shows the edit, the backend
\* row does not
C4_Witness ==
  /\ last.act = "handleUpdateTask"
  /\ last.upd.id \in SubtaskIds(tasks)
  /\ \A n \in Reachable(tasks, last.upd.id) : Shows(n, last.upd)
  /\ ~Shows(RowOf(db, last.upd.id), last.upd)
  /\ ops[Len(ops)].pc = "sent"

\* C6 as claimed: when the handler of a failed mutation has run, the banner
\* state is non-null
C6_Original ==
  last.act \in {"updateFailed", "insertFailed"} => error # NULL

\* the step sends one update for a user action and none otherwise; it
\* sends one fetchData when an update has failed, none when an update has
\* succeeded, and no fetchData for any other reason but checkAuth
C10_Step ==
  LET updGone == CountOps(ops', "update") < CountOps(ops, "update")
      failed == updGone /\ writes' = writes
      succeeded == updGone /\ writes' = writes + 1
  IN  /\ issued' = issued + 1 =>
            /\ CountOps(ops', "update") = CountOps(ops, "update") + 1
            /\ ops'[Len(ops')].pc = "sent"
      /\ issued' = issued =>
            CountOps(ops', "update") <= CountOps(ops, "update")
      /\ updGone => (failed \/ succeeded)
                    /\ CountOps(ops', "update") = CountOps(ops, "update") - 1
      /\ succeeded => CountOps(ops', "fetch") = CountOps(ops, "fetch")
      /\ failed => /\ CountOps(ops', "fetch") = CountOps(ops, "fetch") + 1
                   /\ ops'[Len(ops')].kind = "fetch"
                   /\ ops'[Len(ops')].pc = "users"
      /\ CountOps(ops', "fetch") > CountOps(ops, "fetch") =>
            (failed \/ ~authChecked)

\* C10: a quick update sends exactly one backend update and never sends it
\* again; its success sends no fetch and its failure exactly one fetchData
C10_OneCallNoRetry == [][C10_Step]_vars

\* an update has failed and its one corrective fetchData is in flight
C10_Witness ==
  /\ last.act = "updateFailed"
  /\ InFlight("update") = {}
  /\ Cardinality(InFlight("fetch")) = 1
  /\ \A i \in InFlight("fetch") : ops[i].cause = "update"

(***************************************************************************)
(* Properties of subtask creation                                          *)
(***************************************************************************)
\* the number of entries with this id in the subtasks lists of the tasks
\* whose id is parent, at any depth of the forest
RECURSIVE EntriesUnder(_, _, _)
EntriesUnder(ts, parent, id) ==
  IF ts = <<>> THEN 0
  ELSE (IF Head(ts).id = parent
          THEN Cardinality({j \in 1..Len(Head(ts).subtasks) :
                              Head(ts).subtasks[j].id = id})
          ELSE 0)
       + EntriesUnder(Head(ts).subtasks, parent, id)
       + EntriesUnder(Tail(ts), parent, id)

\* C5 as claimed: handleSaveTask puts a placeholder with the temp id under
\* the parent before the backend insert; when the insert is confirmed the
\* parent holds exactly one entry with the backend's id and the temp id is
\* gone; when the insert has failed and the fetch has resolved, no
\* placeholder remains
C5_Original ==
  /\ last.act = "handleSaveTask" =>
        /\ EntriesUnder(tasks, last.parent, last.tempId) >= 1
        /\ ops[Len(ops)].kind = "insert" /\ ops[Len(ops)].pc = "sent"
  /\ last.act = "insertConfirmed" =>
        /\ EntriesUnder(tasks, last.parent, last.newId) = 1
        /\ CountIn(tasks, last.tempId) = 0
  /\ (last.act = "fetchData" /\ last.cause = "insert" /\ last.ok) =>
        CountIn(tasks, last.by.tempId) = 0

\* C20 as claimed: when the insert of a subtask is confirmed and its parent
\* is in the local forest, as a root or as a subtask, the forest holds the
\* new task under that parent
C20_Original ==
  (/\ last.act = "insertConfirmed"
   /\ \E n \in NodesOf(tasks) : n.id = last.parent) =>
     EntriesUnder(tasks, last.parent, last.newId) >= 1

\* C22 as claimed: the ids of the tasks of the local forest are pairwise
\* distinct in every state, also while subtask creations are in flight and
\* after each confirmation has replaced a temp id
C22_Original ==
  \A n \in NodesOf(tasks) : CountIn(tasks, n.id) = 1

(***************************************************************************)
(* Properties of drag and drop                                             *)
(***************************************************************************)
\* the status a drop target stands for: the column itself, or the column
\* whose group holds a task with the target's id, or none
DropColumn(over) ==
  IF over \in StatusSet THEN over
  ELSE IF \E n \in SeqToSet(tasks) : n.id = over
         THEN (CHOOSE n \in SeqToSet(tasks) : n.id = over).status
         ELSE NULL

\* the step has appended one request to ops: this update
SendsOnly(upd) ==
  /\ Len(ops') = Len(ops) + 1
  /\ SubSeq(ops', 1, Len(ops)) = ops
  /\ ops'[Len(ops')].kind = "update"
  /\ ops'[Len(ops')].pc = "sent"
  /\ ops'[Len(ops')].upd = upd
  /\ issued' = issued + 1

\* a step of handleDragEnd for a dragged task, over a target whose status
\* is resolved
C7_Step ==
  (last'.act = "handleDragEnd" /\ last'.over # NULL
     /\ activeTask.kind = "task" /\ DropColumn(last'.over) # NULL) =>
     IF DropColumn(last'.over) # activeTask.task.status
       THEN SendsOnly([id |-> activeTask.task.id,
                       status |-> DropColumn(last'.over)])
       ELSE ops' = ops /\ issued' = issued /\ tasks' = tasks

\* C7: a drag that ends over a target whose status is resolved issues
\* exactly one update {id of the dragged task, status: resolved status} when
\* that status differs from the dragged task's status, and no request when
\* it is the same
C7_OneUpdateIfChanged == [][C7_Step]_vars

\* a card of the todo column has been dropped on the done column: one update
\* to done is in flight and the card shows done
C7_Witness ==
  /\ last.act = "handleDragEnd" /\ last.over = "done"
  /\ Len(ops) = 1
  /\ ops[1].kind = "update" /\ ops[1].upd.status = "done"
  /\ RowOf(db, ops[1].upd.id).status = "todo"
  /\ \A n \in Reachable(tasks, ops[1].upd.id) : n.status = "done"

\* a step of handleDragOver or of handleDragEnd over a target
C8_Step ==
  /\ (last'.act = "handleDragOver" /\ last'.over # NULL) =>
        overId' = DropColumn(last'.over)
  /\ (last'.act = "handleDragEnd" /\ last'.over # NULL
        /\ activeTask.kind = "task") =>
        /\ issued' = issued + 1 =>
              ops'[Len(ops')].upd.status = DropColumn(last'.over)
        /\ DropColumn(last'.over) \notin {NULL, activeTask.task.status} =>
              issued' = issued + 1
        /\ (last'.over \in StatusSet
              /\ last'.over # activeTask.task.status) =>
              ops'[Len(ops')].upd.status = last'.over

\* C8: the drop target resolves to itself when it is a column identifier,
\* whatever the tasks are, and otherwise to the status of the group that
\* holds a task with its id; handleDragEnd sends that status and
\* handleDragOver highlights that column
C8_Resolution == [][C8_Step]_vars

\* a card has been dropped on a card of another column: the update in
\* flight carries the column of the card it was dropped on
C8_Witness ==
  /\ last.act = "handleDragEnd" /\ last.over \in RootIds(tasks)
  /\ Len(ops) = 1
  /\ ops[1].kind = "update" /\ ops[1].upd.id # last.over
  /\ ops[1].upd.status = RowOf(db, last.over).status
  /\ RowOf(db, ops[1].upd.id).status # ops[1].upd.status

\* the step sends no request and patches nothing
NoUpdate ==
  /\ ops' = ops
  /\ issued' = issued
  /\ tasks' = tasks
  /\ db' = db

\* the drag in progress holds no task: its id was in no status group when
\* it started
DragWithoutTask == \A n \in SeqToSet(tasks) : n.id # dragId

\* a step of handleDragCancel or of handleDragEnd
C29_Step ==
  /\ last'.act = "handleDragCancel" =>
        NoUpdate /\ activeTask' = Nothing /\ overId' = NULL
  /\ last'.act = "handleDragEnd" =>
        /\ activeTask' = Nothing /\ overId' = NULL
        /\ (\/ last'.over = NULL
            \/ DropColumn(last'.over) = NULL
            \/ DragWithoutTask) => NoUpdate

\* C29: a drag that is cancelled, that ends over no droppable target, that
\* ends over an id that is neither a column nor a task of a status group, or
\* that started on an id found in no status group issues no update; after
\* every drag end or cancel activeTask and overId are both null.
C29_NoUpdateWithoutTarget == [][C29_Step]_vars

\* a card was dragged, a column was highlighted, and the drag has ended over
\* an id that is neither a column nor a card: nothing was sent
C29_Witness ==
  /\ last.act = "handleDragEnd" /\ last.over = StrayId
  /\ ops = <<>> /\ issued = 0
  /\ activeTask = Nothing /\ overId = NULL /\ dragId = NULL
  /\ tasks = BuildTree(db)

(***************************************************************************)
(* Properties of fetchData and checkAuth                                   *)
(***************************************************************************)
\* a step in which a fetchData ends after a failed query
C11_Step ==
  /\ (last'.act = "fetchData" /\ ~last'.ok) =>
        /\ tasks' = tasks
        /\ error' = "Failed to load tasks"
  /\ (last'.act = "fetchData" /\ ~last'.usersOk) => users' = users

\* C11: a fetchData whose tasks query has failed leaves the local forest as
\* it was and sets the error state; a fetchData whose users query has failed
\* leaves the users list as it was
C11_FailedQueriesKeepState == [][C11_Step]_vars

\* both queries of a fetchData on the loaded board have failed: the forest
\* and the users list are still there and the error is set
C11_Witness ==
  /\ last.act = "fetchData" /\ ~last.ok /\ ~last.usersOk
  /\ tasks # <<>> /\ users # <<>>
  /\ error = "Failed to load tasks"

\* a step in which a fetchData whose tasks query returned rows ends
C12_Step ==
  (last'.act = "fetchData" /\ last'.ok) =>
     \E i \in 1..Len(ops) :
        /\ ops[i].kind = "fetch" /\ ops[i].pc = "read"
        /\ ops' = RemoveAt(ops, i)
        /\ ops[i].verRead = last'.verRead
        /\ tasks' = BuildTree(ops[i].snap)

\* C12: the forest a fetchData stores is the one built from the rows that
\* call has read, whatever is displayed and whichever call was issued
\* first, so that of two overlapping calls the one that ends last decides
C12_LastResolvedWins == [][C12_Step]_vars

\* a fetchData has replaced the forest of a later snapshot by the forest of
\* an earlier one, which is not the forest of the backend rows
C12_Witness ==
  /\ last.act = "fetchData" /\ last.ok
  /\ last.prevRead > last.verRead
  /\ ops = <<>>
  /\ tasks # BuildTree(db)

C13_Original ==
  /\ (modalTask.kind = "new" /\ last.act = "newTask") =>
        FormStatus = "backlog"
  /\ (modalTask.kind = "new" /\ last.act = "onQuickCreate") =>
        FormStatus = last.status

(***************************************************************************)
(* Properties of handleDeleteTask                                          *)
(***************************************************************************)
\* following parent_id from t reaches the task with this id within n steps
RECURSIVE ChainReaches(_, _, _, _)
ChainReaches(rows, t, id, n) ==
  IF t.id = id THEN TRUE
  ELSE IF n = 0 \/ t.parent_id = NULL \/ t.parent_id \notin IdsOf(rows)
         THEN FALSE
  ELSE ChainReaches(rows, RowOf(rows, t.parent_id), id, n - 1)

\* the fetchData that follows a successful delete has stored its forest
DeletedAndFetched ==
  last.act = "fetchData" /\ last.cause = "deleted" /\ last.ok

\* C14: after a successful handleDeleteTask and the fetchData that follows
\* it, the forest holds neither the deleted task nor any task whose parent
\* chain led to it
C14_DeleteCascades ==
  DeletedAndFetched =>
     \A i \in 1..Len(last.by.pre) :
        ChainReaches(last.by.pre, last.by.pre[i], last.by.id,
                     Len(last.by.pre))
           => CountIn(tasks, last.by.pre[i].id) = 0

\* a root with a subtask and a subtask of that subtask has been deleted: all
\* three are gone and the other root is still there
C14_Witness ==
  /\ DeletedAndFetched
  /\ last.by.id = "t1"
  /\ Len(last.by.pre) = 4
  /\ RootIds(tasks) = {"t4"}
  /\ SubtaskIds(tasks) = {}

\* a failed delete of a direct subtask that the backend held has been
\* answered by a fetchData that read the rows as they were when the delete
\* was sent
DeleteReverted ==
  /\ last.act = "fetchData" /\ last.cause = "deleteFailed" /\ last.ok
  /\ last.by.isSubtask
  /\ last.by.id \in IdsOf(last.by.pre)
  /\ last.verRead = last.by.ver

C21_Step ==
  /\ last'.act = "handleDeleteTask" =>
        IF last'.id \in SubtaskIds(tasks)
          THEN /\ CountIn(tasks', last'.id) = 0
               /\ db' = db
               /\ \E i \in 1..Len(ops') :
                     /\ ops'[i].kind = "delete" /\ ops'[i].pc = "sent"
                     /\ ops'[i].id = last'.id
               /\ \A p \in IdsOf(db) :
                     EntriesUnder(tasks', p, last'.id) = 0
          ELSE tasks' = tasks
  /\ DeleteReverted' =>
        EntriesUnder(tasks', RowOf(last'.by.pre, last'.by.id).parent_id,
                     last'.by.id) = 1

\* C21: deleting a direct subtask removes it from the subtasks list of its
\* parent while the backend delete is still pending; when that delete has
\* failed and the corrective fetchData has resolved, the subtask is again
\* under the same parent; deleting any other task changes nothing locally
\* before the backend answers
C21_OptimisticDelete == [][C21_Step]_vars

\* the delete of the subtask t2 of t1 has failed and has been reverted
C21_Witness ==
  /\ DeleteReverted
  /\ last.by.id = "t2"
  /\ EntriesUnder(tasks, "t1", "t2") = 1
  /\ error # NULL


(***************************************************************************)
(* Properties of the documents page                                        *)
(***************************************************************************)
\* the extensions the priority table of getFormatPriority lists
Recognised == DOMAIN PriorityTable

\* C15 as claimed: on the documents the page holds, the comparison of
\* sortFormats is a total order on the extensions (antisymmetric and
\* transitive), it orders recognised extensions as the table pdf < docx <
\* doc < md < html < txt does, and it puts every document whose extension
\* is outside the table, or that has none, strictly after every document
\* with a recognised one
C15_Original ==
  \A i, j \in 1..Len(documents) :
    LET a == documents[i]
        b == documents[j]
        extA == GetExtension(a.file_name)
        extB == GetExtension(b.file_name)
    IN  /\ (SortCompare(a, b) < 0) = (SortCompare(b, a) > 0)
        /\ \A k \in 1..Len(documents) :
              (SortCompare(a, b) <= 0 /\ SortCompare(b, documents[k]) <= 0)
                 => SortCompare(a, documents[k]) <= 0
        /\ (extA \in Recognised /\ extB \in Recognised) =>
              ((SortCompare(a, b) < 0) =
                 (PriorityTable[extA] < PriorityTable[extB]))
        /\ (extA \in Recognised /\ extB \notin Recognised) =>
              SortCompare(a, b) < 0

\* the priority rank of a document: the entry of the table for a recognised
\* extension; any other extension, or none, comes after all six
Rank(doc) ==
  IF GetExtension(doc.file_name) \in Recognised
    THEN PriorityTable[GetExtension(doc.file_name)]
    ELSE 999

\* the documents of a list with their multiplicities
DocBag(s) ==
  [d \in {s[i] : i \in 1..Len(s)} |->
     Cardinality({i \in 1..Len(s) : s[i] = d})]

\* the file names of a list, in order
Names(s) == [i \in 1..Len(s) |-> s[i].file_name]

\* C16 as claimed: the list sortFormats returns for a group is a
\* permutation of the formats of the group in non-decreasing priority rank,
\* getBestFormat is a format of minimal rank, and for Report.pdf,
\* Report.docx, Report.html in any input order the list is [pdf, docx,
\* html] with best format Report.pdf
C16_Original ==
  last.act = "sortFormats" =>
    LET formats == documentGroups[last.group].formats
    IN  /\ DocBag(sortedFormats) = DocBag(formats)
        /\ Len(sortedFormats) = Len(formats)
        /\ \A i \in 1..(Len(sortedFormats) - 1) :
              Rank(sortedFormats[i]) <= Rank(sortedFormats[i + 1])
        /\ \A i \in 1..Len(formats) : Rank(GetBestFormat) <= Rank(formats[i])
        /\ (/\ Len(formats) = 3
            /\ {formats[i].file_name : i \in 1..3} =
                  {<<"Report", "pdf">>, <<"Report", "docx">>,
                   <<"Report", "html">>}) =>
              /\ Names(sortedFormats) = <<<<"Report", "pdf">>,
                                          <<"Report", "docx">>,
                                          <<"Report", "html">>>>
              /\ GetBestFormat.file_name = <<"Report", "pdf">>

\* the groups flattened: the groups in order, the formats of each in order
RECURSIVE Flatten(_)
Flatten(groups) ==
  IF groups = <<>> THEN <<>>
  ELSE Head(groups).formats \o Flatten(Tail(groups))

\* the documents with creation times t in place of their own
WithTimes(docs, t) ==
  [k \in 1..Len(docs) |-> [docs[k] EXCEPT !.created_at = t[k]]]

\* grouping the flattened groups of a list gives the groups of the list
Idempotent(docs) ==
  GroupDocuments(Flatten(GroupDocuments(docs))) = GroupDocuments(docs)

\* C17: groupDocuments is idempotent on its own flattened output: the
\* groups the page stores, flattened group by group and format by format
\* and grouped again, are the same groups with the same keys, members,
\* member order and group order; and so it is for the same documents
\* listed with any other creation times
C17_GroupingIdempotent ==
  last.act = "fetchData documents" =>
    /\ documentGroups = GroupDocuments(documents)
    /\ GroupDocuments(Flatten(documentGroups)) = documentGroups
    /\ \A t \in [1..Len(documents) -> DocTimes] :
          Idempotent(WithTimes(documents, t))

\* documents of two stems were fetched interleaved, so that the flattened
\* groups list them in another order than the query did
C17_Witness ==
  /\ last.act = "fetchData documents"
  /\ Len(documentGroups) = 2
  /\ Len(documentGroups[1].formats) = 2
  /\ Flatten(documentGroups) # documents

(***************************************************************************)
(* Properties of the subtask checkboxes and of the modal                   *)
(***************************************************************************)
\* BoardCard: completedSubtasks
BoardCompleted(t) ==
  Cardinality({j \in 1..Len(t.subtasks) : t.subtasks[j].completed_at # NULL})

\* TaskCard and TaskModal: the subtasks whose status is done
DoneSubtasks(t) ==
  Cardinality({j \in 1..Len(t.subtasks) : t.subtasks[j].status = "done"})

\* C23 as claimed: for every task with subtasks, the completed count of its
\* board card is the number of its subtasks whose status is done, which is
\* the count of its list card and of the modal opened on it
C23_Original ==
  \A i \in 1..Len(tasks) :
     tasks[i].subtasks # <<>> =>
        /\ BoardCompleted(tasks[i]) = DoneSubtasks(tasks[i])
        /\ (modalTask.kind = "task" /\ modalTask.task.id = tasks[i].id) =>
              DoneSubtasks(modalTask.task) = DoneSubtasks(tasks[i])


\* C26: whenever the modal is open on a task whose id is the id of a root
\* of the local forest, the task of the modal is that root as the forest
\* now holds it, with its current subtasks list
C26_ModalFollowsRoot ==
  (modalTask.kind = "task" /\ modalTask.task.id \in RootIds(tasks)) =>
     \E i \in 1..Len(tasks) :
        /\ tasks[i].id = modalTask.task.id
        /\ modalTask.task = tasks[i]

\* a subtask has been checked from the modal opened on its root: the modal
\* shows the subtask as done
C26_Witness ==
  /\ last.act = "toggleSubtask" /\ last.parent = "t1"
  /\ last.upd = [id |-> "t2", status |-> "done"]
  /\ modalTask.kind = "task" /\ modalTask.task.id = "t1"
  /\ modalTask.task.subtasks[1].status = "done"

(***************************************************************************)
(* Frame of the optimistic patch of handleUpdateTask                       *)
(***************************************************************************)
\* task new is task old with the fields of upd replaced and nothing else
OnlyNamedFields(old, new, upd) ==
  /\ DOMAIN new = DOMAIN old
  /\ \A f \in DOMAIN old :
        new[f] = IF f \in DOMAIN upd THEN upd[f] ELSE old[f]

C24_Step ==
  last'.act = "handleUpdateTask" =>
    LET upd == last'.upd
    IN  /\ Len(tasks') = Len(tasks)
        /\ \A i \in 1..Len(tasks) :
              IF tasks[i].id = upd.id
                THEN OnlyNamedFields(tasks[i], tasks'[i], upd)
                ELSE /\ DOMAIN tasks'[i] = DOMAIN tasks[i]
                     /\ \A f \in DOMAIN tasks[i] \ {"subtasks"} :
                           tasks'[i][f] = tasks[i][f]
                     /\ Len(tasks'[i].subtasks) = Len(tasks[i].subtasks)
                     /\ \A j \in 1..Len(tasks[i].subtasks) :
                           IF tasks[i].subtasks[j].id = upd.id
                             THEN OnlyNamedFields(tasks[i].subtasks[j],
                                                  tasks'[i].subtasks[j], upd)
                             ELSE tasks'[i].subtasks[j] = tasks[i].subtasks[j]
        /\ upd.id \notin RootIds(tasks) \cup SubtaskIds(tasks) =>
              tasks' = tasks

\* C24: the optimistic patch of handleUpdateTask replaces the fields named
\* in the request on the task whose id matches and changes nothing else:
\* the other tasks, the other fields of the target, the roots and the
\* members and order of every subtasks list stay as they were; when no root
\* and no direct subtask has the id, the forest is unchanged
C24_PatchFrame == [][C24_Step]_vars

\* the direct subtask t2 has been edited: it shows the new status and still
\* carries its own subtask, next to the untouched second root
C24_Witness ==
  /\ last.act = "handleUpdateTask"
  /\ last.upd = [id |-> "t2", status |-> "done"]
  /\ Len(tasks) = 2
  /\ Len(tasks[1].subtasks) = 1
  /\ tasks[1].subtasks[1].status = "done"
  /\ tasks[1].subtasks[1].priority = "medium"
  /\ Len(tasks[1].subtasks[1].subtasks) = 1

(***************************************************************************)
(* Termination of fetchData                                                *)
(***************************************************************************)
\* a fetchData call has started and has not run to its end
FetchInFlight == \E i \in 1..Len(ops) : ops[i].kind = "fetch"

\* C25: when the backend answers every request, every fetchData that was
\* started, on mount or to revert a failed update, and whether its queries
\* fail or not, runs to its end and sets loading to false: the board does
\* not stay on the Loading screen
C25_LoadingEnds == FetchInFlight ~> (~FetchInFlight /\ ~loading)

\* a fetchData whose tasks query failed has ended: the board is shown with
\* the error banner
C25_Witness ==
  /\ last.act = "fetchData" /\ ~last.ok
  /\ ~FetchInFlight /\ ~loading /\ BoardVisible
  /\ error = "Failed to load tasks"

(***************************************************************************)
(* Properties of the list view                                             *)
(***************************************************************************)
\* C27: in the list view the current page stays within 1..max(1, totalPages)
\* after any sequence of sort clicks, page-size changes, page navigation and
\* changes of the tasks passed in, so a list that is not empty never renders
\* as an empty page.
C27_Original ==
  ListMounted =>
    /\ currentPage \in 1..Max(1, TotalPages(listLen, pageSize))
    /\ listLen > 0 => PaginatedLen(listLen, currentPage, pageSize) > 0

(***************************************************************************)
(* Properties of the deletion of a document group                          *)
(***************************************************************************)
\* a run of confirmDelete has finished and every fetchData it called has
\* been answered
DeleteSettled ==
  /\ docDelete = Nothing
  /\ docsPending = 0
  /\ \/ last.act = "deleteFormat" /\ last.finished
     \/ last.act = "fetchData documents"

\* C28: after confirmDelete for a document group has finished, whether every
\* per-format delete succeeded or one failed part-way, and the pending
\* fetches have resolved, the document groups displayed equal the grouping
\* of the rows the backend holds: no format already deleted is still shown.
C28_Original == DeleteSettled => documentGroups = GroupDocuments(docTable)

(***************************************************************************)
(* Properties of the columns of the board                                  *)
(***************************************************************************)
\* the task passes the status, assignee and search filters of the state
PassesFilters(task) ==
  /\ filterStatus \in {"all", task.status}
  /\ filterAssignee \in {"all", task.assignee_id}
  /\ \/ searchQuery = <<>>
     \/ Includes(LowerCased(task.title), LowerCased(searchQuery))

\* the columns the board renders in the state
Columns == StatusGroups(tasks, filterStatus, filterAssignee, searchQuery)

\* number of cards of the column with this id
CardsIn(status, id) ==
  Cardinality({k \in 1..Len(Columns[status]) : Columns[status][k].id = id})

\* C30: in every state the five columns partition the root tasks that pass
\* the status, assignee and search filters: each such root is a card of
\* exactly one column, the column of its status, every card is such a root,
\* and no subtask is a card of any column.
C30_ColumnsPartition ==
  /\ DOMAIN Columns = StatusSet
  /\ \A i \in 1..Len(tasks) :
       \A status \in StatusSet :
         CardsIn(status, tasks[i].id) =
           IF PassesFilters(tasks[i]) /\ tasks[i].status = status
             THEN 1 ELSE 0
  /\ \A status \in StatusSet :
       \A k \in 1..Len(Columns[status]) :
         /\ \E i \in 1..Len(tasks) : tasks[i] = Columns[status][k]
         /\ Columns[status][k].parent_id = NULL
         /\ Columns[status][k].id \notin SubtaskIds(tasks)

\* a search text in another case and an assignee filter are set after a
\* quick update moved t1 to in_progress: t1 is the one card of the board
C30_Witness ==
  /\ BoardVisible
  /\ searchQuery = <<"A", "B">> /\ filterAssignee = "u2"
  /\ Len(Columns["in_progress"]) = 1
  /\ Columns["in_progress"][1].id = "t1"
  /\ \A status \in StatusSet \ {"in_progress"} : Columns[status] = <<>>
  /\ Len(tasks) = 3


====
